---- MODULE Spec2Model ----
(***************************************************************************)
(* Enrollment financial engine of KyC_web_service: pricing snapshot,       *)
(* payment ledger, next-obligation resolver and payment approval workflow. *)
(*                                                                         *)
(* Money.  The code keeps amounts as floats in Bs.  Here an amount is an   *)
(* exact rational kept as an integer number of units, Scale units to the   *)
(* cent, Scale being a common multiple of every installment count, so that *)
(* (total_a_pagar - costo_matricula) / cantidad_cuotas is exact.  Course   *)
(* prices are given in cents.  round(x, 2) rounds to a whole cent; a value *)
(* exactly half way between two cents has no exact float representation,   *)
(* so the float error decides the direction: both results are allowed.     *)
(*                                                                         *)
(* None.  Optional[int] numero_cuota = None is 0 (the field is ge=1);      *)
(* Optional[str] = None is the string "None".                              *)
(***************************************************************************)
EXTENDS Integers, Sequences, FiniteSets, TLC

VARIABLES
    enrollments,  \* collection "enrollments": id (position) -> Enrollment
    payments,     \* collection "payments": id (position) -> Payment
    inflight,     \* create_payment requests suspended between resolve and insert
    courses,      \* collection "courses": the documents updated since the
                  \* catalogue Courses was stored, id -> Course
    last          \* outcome of the last request that ran

vars == <<enrollments, payments, inflight, courses, last>>

----------------------------------------------------------------------------
\* Bounds of the model

MaxPayments == 3

----------------------------------------------------------------------------
\* Data the collaborators supply

None == "None"

Students == {"s1", "s2"}

\* create_payment requests that can be in progress at the same time
Requests == {"r1", "r2"}

\* a request slot with no create_payment in progress
Idle == <<>>

\* the students an admin enrolls
EnrollStudents == {"s1"}

Admins == {"admin1"}

\* Courses, prices in cents (models/course.py fields read by create_enrollment)
Courses ==
    [ c1 |-> [costo_total |-> 1001, matricula |-> 201, cantidad_cuotas |-> 1,
              descuento_curso |-> 0, descuento_id |-> None],
      c2 |-> [costo_total |-> 1001, matricula |-> 0, cantidad_cuotas |-> 2,
              descuento_curso |-> 10, descuento_id |-> None],
      c3 |-> [costo_total |-> 1200, matricula |-> 300, cantidad_cuotas |-> 3,
              descuento_curso |-> 0, descuento_id |-> None],
      c4 |-> [costo_total |-> 900, matricula |-> 0, cantidad_cuotas |-> 3,
              descuento_curso |-> 0, descuento_id |-> None],
      c5 |-> [costo_total |-> 1000, matricula |-> 200, cantidad_cuotas |-> 4,
              descuento_curso |-> 0, descuento_id |-> None],
      c6 |-> [costo_total |-> 3000, matricula |-> 0, cantidad_cuotas |-> 1,
              descuento_curso |-> 10, descuento_id |-> None],
      c7 |-> [costo_total |-> 1001, matricula |-> 0, cantidad_cuotas |-> 1,
              descuento_curso |-> 0, descuento_id |-> None],
      c8 |-> [costo_total |-> 3000, matricula |-> 0, cantidad_cuotas |-> 1,
              descuento_curso |-> 10, descuento_id |-> "d_activo"],
      c9 |-> [costo_total |-> 3000, matricula |-> 0, cantidad_cuotas |-> 1,
              descuento_curso |-> 10, descuento_id |-> "d_inactivo"],
      c10 |-> [costo_total |-> 3000, matricula |-> 0, cantidad_cuotas |-> 1,
               descuento_curso |-> 10, descuento_id |-> "d_missing"],
      c11 |-> [costo_total |-> 3000, matricula |-> 0, cantidad_cuotas |-> 1,
               descuento_curso |-> 10, descuento_id |-> "d_vencido"] ]

CourseIds == DOMAIN Courses

\* the courses of the enrollment whose whole life cycle is followed
LedgerCourses == {"c1", "c2"}

\* the courses with three installments, for the order of the obligations
InstallmentCourses == {"c3", "c4"}

\* the course paid to the end: base 1000, down payment 200, 4 installments
PaidUpCourses == {"c5"}

\* the courses for the discount resolution: a literal course discount, none,
\* and a reference to each Discount below
PricingCourses == {"c6", "c7", "c8", "c9", "c10", "c11"}

\* collection "discounts" (models/discount.py); dates are day numbers, 0 is
\* None.  d_vencido is active with a validity window that ended before Hoy.
Discounts ==
    [ d_activo   |-> [porcentaje |-> 20, activo |-> TRUE,
                      fecha_inicio |-> 0, fecha_fin |-> 0],
      d_inactivo |-> [porcentaje |-> 30, activo |-> FALSE,
                      fecha_inicio |-> 0, fecha_fin |-> 0],
      d_vencido  |-> [porcentaje |-> 40, activo |-> TRUE,
                      fecha_inicio |-> 1, fecha_fin |-> 2] ]

\* the references a request can carry: none, a record, a dangling id
DiscountRefs == {None, "d_activo", "d_inactivo", "d_vencido", "d_missing"}

\* the day create_enrollment runs
Hoy == 5

\* descuento_personalizado of EnrollmentCreate (0 also stands for None)
LiteralValues == {0, 5, 50, 100}

\* Percentages an admin supplies as descuento_personalizado (0..100)
DescuentoValues == {0, 50}

\* What a student sends with a voucher (PaymentCreate and the comprobante data)
PaymentInputs ==
    { [concepto |-> None, numero_cuota |-> 0, cantidad_pago |-> 0,
       numero_transaccion |-> "BNB-1", monto_comprobante |-> 20000],
      [concepto |-> "Cuota 3", numero_cuota |-> 3, cantidad_pago |-> 1,
       numero_transaccion |-> "BNB-1", monto_comprobante |-> 20000] }

\* Vouchers that differ in every field a student supplies
VoucherInputs ==
    PaymentInputs \cup
    { [concepto |-> "Cuota 2", numero_cuota |-> 2, cantidad_pago |-> 5,
       numero_transaccion |-> "BNB-2", monto_comprobante |-> 100] }

\* the motivo of a rejection body: missing, empty or given
Motivos == {None, "", "Voucher ilegible"}

----------------------------------------------------------------------------
\* Arithmetic

RECURSIVE Gcd(_, _)
Gcd(a, b) == IF b = 0 THEN a ELSE Gcd(b, a % b)

Lcm(a, b) == (a * b) \div Gcd(a, b)

RECURSIVE LcmOf(_)
LcmOf(S) ==
    IF S = {} THEN 1
    ELSE LET n == CHOOSE n \in S : TRUE IN Lcm(n, LcmOf(S \ {n}))

\* units per cent
Scale == LcmOf({Courses[c].cantidad_cuotas : c \in CourseIds})

Cents(n) == n * Scale

Max(a, b) == IF a >= b THEN a ELSE b

Abs(a) == IF a >= 0 THEN a ELSE 0 - a

\* round(num/den cents, 2) for num >= 0: the whole cents the float can round to
Round2(num, den) ==
    LET q == num \div den
        r == num % den
    IN  IF 2 * r < den THEN {q}
        ELSE IF 2 * r > den THEN {q + 1}
        ELSE {q, q + 1}

----------------------------------------------------------------------------
\* models/enums.py

PENDIENTE_PAGO == "pendiente_pago"
ACTIVO == "activo"
SUSPENDIDO == "suspendido"
COMPLETADO == "completado"
CANCELADO == "cancelado"

EstadoInscripcion == {PENDIENTE_PAGO, ACTIVO, SUSPENDIDO, COMPLETADO, CANCELADO}

PENDIENTE == "pendiente"
APROBADO == "aprobado"
RECHAZADO == "rechazado"

EstadoPago == {PENDIENTE, APROBADO, RECHAZADO}

----------------------------------------------------------------------------
\* Outcome of a request: the value returned or the error raised

Ok(op, id) == [op |-> op, id |-> id, ok |-> TRUE, error |-> "", ref |-> 0]

Err(op, id, error, ref) ==
    [op |-> op, id |-> id, ok |-> FALSE, error |-> error, ref |-> ref]

\* a request that is suspended at an await and has no outcome yet
Suspended(op, id) == [op |-> op, id |-> id, ok |-> TRUE, error |-> "await", ref |-> 0]

----------------------------------------------------------------------------
\* models/enrollment.py

\* Faulty variant of calcular_monto_cuota: the Matricula is not deducted
calcular_monto_cuota_SinMatricula(enr) ==
    IF enr.cantidad_cuotas = 0 THEN 0
    ELSE enr.total_a_pagar \div enr.cantidad_cuotas

\* Enrollment.calcular_monto_cuota, in units
calcular_monto_cuota(enr) ==
    IF enr.cantidad_cuotas = 0 THEN 0
    ELSE (enr.total_a_pagar - enr.costo_matricula) \div enr.cantidad_cuotas

\* Faulty variant of actualizar_saldo: the amount replaces total_pagado
\* instead of being added to it
actualizar_saldo_SinAcumular(enr, monto_pago_aprobado) ==
    [enr EXCEPT !.total_pagado = monto_pago_aprobado,
                !.saldo_pendiente = Max(0, enr.total_a_pagar - monto_pago_aprobado)]

\* Enrollment.actualizar_saldo
actualizar_saldo(enr, monto_pago_aprobado) ==
    LET pagado == enr.total_pagado + monto_pago_aprobado
    IN  [enr EXCEPT !.total_pagado = pagado,
                    !.saldo_pendiente = Max(0, enr.total_a_pagar - pagado)]

\* Enrollment.esta_completamente_pagado: saldo_pendiente <= 0.01
esta_completamente_pagado(enr) == enr.saldo_pendiente <= Cents(1)

\* Enrollment.siguiente_pago: the concept and installment number worked out
\* from total_pagado alone.  int(pagado_a_cuotas / monto_por_cuota) is taken
\* as the exact quotient rounded down; the division is by monto_por_cuota,
\* so the property is read only when that is > 0.  monto_sugerido is left out.
siguiente_pago(enr) ==
    IF esta_completamente_pagado(enr)
    THEN [concepto |-> "Pago Completado", numero_cuota |-> 0]
    ELSE IF /\ enr.total_pagado < enr.costo_matricula
            /\ enr.costo_matricula - enr.total_pagado > Cents(1)
    THEN [concepto |-> "Matrícula", numero_cuota |-> 0]
    ELSE IF enr.cantidad_cuotas > 0
    THEN LET pagado_a_cuotas == Max(0, enr.total_pagado - enr.costo_matricula)
             total_a_pagar_cuotas == enr.total_a_pagar - enr.costo_matricula
             \* pagado / (total / N) = pagado * N / total
             cuotas_pagadas == (pagado_a_cuotas * enr.cantidad_cuotas)
                                   \div total_a_pagar_cuotas
             siguiente_cuota == IF cuotas_pagadas + 1 >= enr.cantidad_cuotas
                                THEN enr.cantidad_cuotas
                                ELSE cuotas_pagadas + 1
         IN  [concepto |-> "Cuota " \o ToString(siguiente_cuota),
              numero_cuota |-> siguiente_cuota]
    ELSE [concepto |-> "Pago Pendiente", numero_cuota |-> 1]

----------------------------------------------------------------------------
\* services/enrollment_service.py

EnrollmentIds == 1..Len(enrollments)

\* Faulty variant of total_final: the two percentages are added
TotalFinalNum_Aditivo(costo_total, descuento_curso, descuento_personal) ==
    costo_total * 100 * Max(0, 100 - descuento_curso - descuento_personal)

\* total_final of create_enrollment / update_enrollment_descuento as the
\* fraction TotalFinalNum / TotalFinalDen of a cent
TotalFinalNum(costo_total, descuento_curso, descuento_personal) ==
    LET total_con_descuento_curso == costo_total * 100 - costo_total * descuento_curso
    IN  total_con_descuento_curso * 100 - total_con_descuento_curso * descuento_personal

TotalFinalDen == 100 * 100

\* Course.get(id): the updated document if there is one, else the stored one
CourseGet(c) == IF c \in DOMAIN courses THEN courses[c] ELSE Courses[c]

\* Discount.es_valido_en_fecha (models/discount.py); create_enrollment does
\* not call it
es_valido_en_fecha(discount, fecha) ==
    IF ~discount.activo THEN FALSE
    ELSE IF discount.fecha_inicio # 0 /\ fecha < discount.fecha_inicio THEN FALSE
    ELSE IF discount.fecha_fin # 0 /\ fecha > discount.fecha_fin THEN FALSE
    ELSE TRUE

\* Discount.get(id): the record, or <<>> when there is none
DiscountGet(id) == IF id \in DOMAIN Discounts THEN <<Discounts[id]>> ELSE <<>>

\* steps 5 and 6 of create_enrollment, the same for both levels: with a
\* reference the record decides (found and activo: its porcentaje, else 0);
\* the literal is looked at only when there is no reference
DescuentoResuelto(descuento_id, literal) ==
    IF descuento_id # None
    THEN LET discount_obj == DiscountGet(descuento_id)
         IN  IF discount_obj # <<>> /\ discount_obj[1].activo
             THEN [porcentaje |-> discount_obj[1].porcentaje, id |-> descuento_id]
             ELSE [porcentaje |-> 0, id |-> None]
    ELSE [porcentaje |-> literal, id |-> None]

\* The Enrollment document create_enrollment builds (step 7); r is the cent
\* round(total_final, 2) gave
NewEnrollment(s, c, course, descuento_curso, descuento_personal, r) ==
    [ estudiante_id |-> s,
      curso_id |-> c,
      costo_total |-> Cents(course.costo_total),
      costo_matricula |-> Cents(course.matricula),
      cantidad_cuotas |-> course.cantidad_cuotas,
      descuento_curso_id |-> descuento_curso.id,
      descuento_curso_aplicado |-> descuento_curso.porcentaje,
      descuento_estudiante_id |-> descuento_personal.id,
      descuento_personalizado |-> descuento_personal.porcentaje,
      total_a_pagar |-> Cents(r),
      total_pagado |-> 0,
      saldo_pendiente |-> Cents(r),
      estado |-> PENDIENTE_PAGO,
      requisitos |-> <<>> ]

\* create_enrollment: refuses a second non-cancelled enrollment of the pair,
\* resolves the two discounts and stores the pricing snapshot
create_enrollment(s, c, descuento_id, descuento_personalizado) ==
    LET existing == {e \in EnrollmentIds :
                           /\ enrollments[e].estudiante_id = s
                           /\ enrollments[e].curso_id = c
                           /\ enrollments[e].estado # CANCELADO}
        course == CourseGet(c)
        descuento_curso == DescuentoResuelto(course.descuento_id, course.descuento_curso)
        descuento_personal == DescuentoResuelto(descuento_id, descuento_personalizado)
    IN  IF existing # {}
        THEN /\ \E e \in existing :
                   last' = Err("create_enrollment", 0, "YaInscrito", e)
             /\ UNCHANGED <<enrollments, payments, inflight, courses>>
        ELSE \E r \in Round2(TotalFinalNum(course.costo_total,
                                           descuento_curso.porcentaje,
                                           descuento_personal.porcentaje),
                             TotalFinalDen) :
               /\ enrollments' = Append(enrollments,
                      NewEnrollment(s, c, course, descuento_curso, descuento_personal, r))
               /\ last' = Ok("create_enrollment", Len(enrollments) + 1)
               /\ UNCHANGED <<payments, inflight, courses>>

\* Faulty variant of the discount edit: total_a_pagar is recomputed and
\* saldo_pendiente is left as it was
DescuentoActualizado_SinSaldo(enr, descuento_personalizado, r_total, r_saldo) ==
    [enr EXCEPT !.descuento_personalizado = descuento_personalizado,
                !.total_a_pagar = Cents(r_total)]

\* update_enrollment_descuento on the loaded document; r_total and r_saldo
\* are the cents the two round(.., 2) calls gave
DescuentoActualizado(enr, descuento_personalizado, r_total, r_saldo) ==
    [enr EXCEPT !.descuento_personalizado = descuento_personalizado,
                !.total_a_pagar = Cents(r_total),
                !.saldo_pendiente = Cents(r_saldo)]

\* Faulty variant of the two roundings: the new saldo ignores total_pagado
DescuentoRedondeos_SinPagado(enr, descuento_personalizado) ==
    LET num == TotalFinalNum(enr.costo_total, enr.descuento_curso_aplicado,
                             descuento_personalizado)
        den == TotalFinalDen * Scale
    IN  {<<r, r>> : r \in Round2(num, den)}

\* the results round(total_final, 2) and round(max(0, nuevo_saldo), 2) can
\* give; round is a function, so equal values get equal results
DescuentoRedondeos(enr, descuento_personalizado) ==
    LET num == TotalFinalNum(enr.costo_total, enr.descuento_curso_aplicado,
                             descuento_personalizado)
        den == TotalFinalDen * Scale
        nuevo_saldo == num - enr.total_pagado * TotalFinalDen
    IN  IF Max(0, nuevo_saldo) = num
        THEN {<<r, r>> : r \in Round2(num, den)}
        ELSE Round2(num, den) \X Round2(Max(0, nuevo_saldo), den)

\* Faulty variant of the state change: cancelling refunds what was paid
EstadoCambiado_Reembolsa(enr, nuevo_estado) ==
    IF nuevo_estado = CANCELADO
    THEN [enr EXCEPT !.estado = nuevo_estado, !.total_pagado = 0,
                     !.saldo_pendiente = enr.total_a_pagar]
    ELSE [enr EXCEPT !.estado = nuevo_estado]

\* cambiar_estado_enrollment on the loaded document
EstadoCambiado(enr, nuevo_estado) == [enr EXCEPT !.estado = nuevo_estado]

\* PATCH /enrollments/{id} (api/enrollments.py update_enrollment): the
\* discount edit, then the state change, each when supplied.  An optional
\* input is a sequence: <<>> is None, <<v>> is the value v.
update_enrollment(id, descuento_personalizado, estado) ==
    /\ id \in EnrollmentIds
    /\ descuento_personalizado # <<>> \/ estado # <<>>
    /\ \E rr \in (IF descuento_personalizado = <<>> THEN {<<0, 0>>}
                  ELSE DescuentoRedondeos(enrollments[id], descuento_personalizado[1])) :
          LET e1 == IF descuento_personalizado = <<>> THEN enrollments[id]
                    ELSE DescuentoActualizado(enrollments[id],
                             descuento_personalizado[1], rr[1], rr[2])
              e2 == IF estado = <<>> THEN e1 ELSE EstadoCambiado(e1, estado[1])
          IN  enrollments' = [enrollments EXCEPT ![id] = e2]
    /\ last' = Ok("update_enrollment", id)
    /\ UNCHANGED <<payments, inflight, courses>>

\* the course document after "for field, value in update_data.items():
\* setattr(course, field, value)"; course_in holds the fields that were sent
CursoActualizado(course, course_in) ==
    [f \in DOMAIN course |-> IF f \in DOMAIN course_in THEN course_in[f]
                             ELSE course[f]]

\* the courses collection after the document of course c is saved
CursoGuardado(c, course) ==
    [x \in (DOMAIN courses) \cup {c} |-> IF x = c THEN course ELSE courses[x]]

\* Faulty variant of update_course: the new price is pushed into the
\* enrollments of the course
update_course_Propaga(c, course_in) ==
    LET course == CursoActualizado(CourseGet(c), course_in)
    IN  /\ c \in CourseIds
        /\ courses' = CursoGuardado(c, course)
        /\ enrollments' = [e \in DOMAIN enrollments |->
               IF enrollments[e].curso_id = c
               THEN [enrollments[e] EXCEPT !.costo_total = Cents(course.costo_total)]
               ELSE enrollments[e]]
        /\ last' = Ok("update_course", 0)
        /\ UNCHANGED <<payments, inflight>>

\* PUT /courses/{id} (api/courses.py update_course, course_service
\* update_course): the fields sent are set on the course and it is saved
update_course(c, course_in) ==
    /\ c \in CourseIds
    /\ courses' = CursoGuardado(c, CursoActualizado(CourseGet(c), course_in))
    /\ last' = Ok("update_course", 0)
    /\ UNCHANGED <<enrollments, payments, inflight>>

\* Faulty variant of the ledger update: only an ACTIVO enrollment completes
SaldoActualizado_SoloActivo(enr, monto_pago_aprobado) ==
    LET e1 == actualizar_saldo(enr, monto_pago_aprobado)
        e2 == IF e1.estado = PENDIENTE_PAGO THEN [e1 EXCEPT !.estado = ACTIVO] ELSE e1
    IN  IF esta_completamente_pagado(e2) /\ e2.estado = ACTIVO
        THEN [e2 EXCEPT !.estado = COMPLETADO] ELSE e2

\* actualizar_saldo_enrollment on the loaded document
SaldoActualizado(enr, monto_pago_aprobado) ==
    LET e1 == actualizar_saldo(enr, monto_pago_aprobado)
        e2 == IF e1.estado = PENDIENTE_PAGO THEN [e1 EXCEPT !.estado = ACTIVO] ELSE e1
    IN  IF esta_completamente_pagado(e2) THEN [e2 EXCEPT !.estado = COMPLETADO] ELSE e2

----------------------------------------------------------------------------
\* services/payment_service.py, models/payment.py

PaymentIds == 1..Len(payments)

Matricula == "Matrícula"

Cuota(i) == "Cuota " \o ToString(i)

NoPayment == [concepto |-> None, numero_cuota |-> 0, monto_sugerido |-> 0]

\* Faulty variant of conceptos_cubiertos: RECHAZADO payments cover too
conceptos_cubiertos_ConRechazados(pagos, enrollment_id) ==
    { <<pagos[p].concepto, pagos[p].numero_cuota>> :
        p \in {q \in DOMAIN pagos : pagos[q].inscripcion_id = enrollment_id} }

\* Faulty variant of conceptos_cubiertos: only APROBADO payments cover
conceptos_cubiertos_SoloAprobados(pagos, enrollment_id) ==
    { <<pagos[p].concepto, pagos[p].numero_cuota>> :
        p \in {q \in DOMAIN pagos :
                  /\ pagos[q].inscripcion_id = enrollment_id
                  /\ pagos[q].estado_pago = APROBADO} }

\* conceptos_cubiertos of get_next_pending_payment: the (concepto,
\* numero_cuota) pairs of the PENDIENTE and APROBADO payments of the enrollment
conceptos_cubiertos(pagos, enrollment_id) ==
    { <<pagos[p].concepto, pagos[p].numero_cuota>> :
        p \in {q \in DOMAIN pagos :
                  /\ pagos[q].inscripcion_id = enrollment_id
                  /\ pagos[q].estado_pago \in {PENDIENTE, APROBADO}} }

\* Faulty variant of the installment loop: the next installment is the
\* number of covered installments plus one
PrimeraCuotaLibre_Contador(enr, cubiertos, i) ==
    LET n == Cardinality({j \in 1..enr.cantidad_cuotas :
                             <<Cuota(j), j>> \in cubiertos}) + 1
    IN  IF n > enr.cantidad_cuotas THEN NoPayment
        ELSE [concepto |-> Cuota(n), numero_cuota |-> n,
              monto_sugerido |-> calcular_monto_cuota(enr)]

\* the loop "for i in range(1, cantidad_cuotas + 1)" from index i on
RECURSIVE PrimeraCuotaLibre(_, _, _)
PrimeraCuotaLibre(enr, cubiertos, i) ==
    IF i > enr.cantidad_cuotas THEN NoPayment
    ELSE IF <<Cuota(i), i>> \notin cubiertos
         THEN [concepto |-> Cuota(i), numero_cuota |-> i,
               monto_sugerido |-> calcular_monto_cuota(enr)]
         ELSE PrimeraCuotaLibre(enr, cubiertos, i + 1)

\* get_next_pending_payment on the enrollment document and the payments read
get_next_pending_payment(enr, pagos, enrollment_id) ==
    LET cubiertos == conceptos_cubiertos(pagos, enrollment_id)
    IN  IF enr.costo_matricula > 0 /\ <<Matricula, 0>> \notin cubiertos
        THEN [concepto |-> Matricula, numero_cuota |-> 0,
              monto_sugerido |-> enr.costo_matricula]
        ELSE IF enr.cantidad_cuotas > 0
             THEN PrimeraCuotaLibre(enr, cubiertos, 1)
             ELSE NoPayment

\* Faulty variant of the Payment built: what the student declares wins
NewPayment_Declarado(enr, enrollment_id, payment_in, next_payment) ==
    [ inscripcion_id |-> enrollment_id,
      estudiante_id |-> enr.estudiante_id,
      curso_id |-> enr.curso_id,
      concepto |-> IF payment_in.concepto # None THEN payment_in.concepto
                   ELSE next_payment.concepto,
      numero_cuota |-> IF payment_in.concepto # None THEN payment_in.numero_cuota
                       ELSE next_payment.numero_cuota,
      numero_transaccion |-> payment_in.numero_transaccion,
      monto_comprobante |-> payment_in.monto_comprobante,
      cantidad_pago |-> IF payment_in.cantidad_pago > 0
                        THEN Cents(payment_in.cantidad_pago)
                        ELSE next_payment.monto_sugerido,
      estado_pago |-> PENDIENTE,
      verificado_por |-> None,
      motivo_rechazo |-> None ]

\* the Payment document create_payment builds (step 4)
NewPayment(enr, enrollment_id, payment_in, next_payment) ==
    [ inscripcion_id |-> enrollment_id,
      estudiante_id |-> enr.estudiante_id,
      curso_id |-> enr.curso_id,
      concepto |-> next_payment.concepto,
      numero_cuota |-> next_payment.numero_cuota,
      numero_transaccion |-> payment_in.numero_transaccion,
      monto_comprobante |-> payment_in.monto_comprobante,
      cantidad_pago |-> next_payment.monto_sugerido,
      estado_pago |-> PENDIENTE,
      verificado_por |-> None,
      motivo_rechazo |-> None ]

\* Payment is built with cantidad_pago: float = Field(..., gt=0)
PaymentValido(pago) == pago.cantidad_pago > 0

\* create_payment run to completion: resolve the obligation and insert
create_payment(enrollment_id, student_id, payment_in) ==
    /\ enrollment_id \in EnrollmentIds
    /\ LET enr == enrollments[enrollment_id]
           next_payment == get_next_pending_payment(enr, payments, enrollment_id)
           pago == NewPayment(enr, enrollment_id, payment_in, next_payment)
       IN  IF enr.estudiante_id # student_id
           THEN /\ last' = Err("create_payment", enrollment_id, "Ownership", 0)
                /\ UNCHANGED payments
           ELSE IF next_payment = NoPayment
           THEN /\ last' = Err("create_payment", enrollment_id, "NoObligation", 0)
                /\ UNCHANGED payments
           ELSE IF ~PaymentValido(pago)
           THEN /\ last' = Err("create_payment", enrollment_id, "Validation", 0)
                /\ UNCHANGED payments
           ELSE /\ payments' = Append(payments, pago)
                /\ last' = Ok("create_payment", Len(payments) + 1)
    /\ UNCHANGED <<enrollments, inflight, courses>>

\* create_payment up to the insert (steps 1-3 and the Payment built in step
\* 4): the enrollment and the payments are read, the obligation is resolved
create_payment_resolve(r, enrollment_id, student_id, payment_in) ==
    /\ enrollment_id \in EnrollmentIds
    /\ inflight[r] = Idle
    /\ LET enr == enrollments[enrollment_id]
           next_payment == get_next_pending_payment(enr, payments, enrollment_id)
           pago == NewPayment(enr, enrollment_id, payment_in, next_payment)
       IN  IF enr.estudiante_id # student_id
           THEN /\ last' = Err("create_payment", enrollment_id, "Ownership", 0)
                /\ UNCHANGED inflight
           ELSE IF next_payment = NoPayment
           THEN /\ last' = Err("create_payment", enrollment_id, "NoObligation", 0)
                /\ UNCHANGED inflight
           ELSE IF ~PaymentValido(pago)
           THEN /\ last' = Err("create_payment", enrollment_id, "Validation", 0)
                /\ UNCHANGED inflight
           ELSE /\ inflight' = [inflight EXCEPT ![r] = <<pago>>]
                /\ last' = Suspended("create_payment", enrollment_id)
    /\ UNCHANGED <<enrollments, payments, courses>>

\* "await payment.insert()" of a suspended create_payment
create_payment_insert(r) ==
    /\ inflight[r] # Idle
    /\ payments' = Append(payments, inflight[r][1])
    /\ inflight' = [inflight EXCEPT ![r] = Idle]
    /\ last' = Ok("create_payment", Len(payments) + 1)
    /\ UNCHANGED <<enrollments, courses>>

\* Payment.aprobar_pago
PagoAprobado(pago, admin_username) ==
    [pago EXCEPT !.estado_pago = APROBADO,
                 !.verificado_por = admin_username,
                 !.motivo_rechazo = None]

\* Payment.rechazar_pago
PagoRechazado(pago, admin_username, motivo) ==
    [pago EXCEPT !.estado_pago = RECHAZADO,
                 !.verificado_por = admin_username,
                 !.motivo_rechazo = motivo]

\* Faulty variant of the state guard: only APROBADO payments are refused
EstaPendiente_NoAprobado(payment) == payment.estado_pago # APROBADO

\* step 2 of aprobar_pago and of rechazar_pago: the payment must be PENDIENTE
EstaPendiente(payment) == payment.estado_pago = PENDIENTE

\* Faulty variant of the anti-duplicate query: it finds nothing
existing_approved_Ninguno(pagos, payment_id) == {}

\* the anti-duplicate query of aprobar_pago: other APROBADO payments of the
\* same inscripcion, concepto and numero_cuota
existing_approved(pagos, payment_id) ==
    {q \in DOMAIN pagos :
        /\ q # payment_id
        /\ pagos[q].inscripcion_id = pagos[payment_id].inscripcion_id
        /\ pagos[q].concepto = pagos[payment_id].concepto
        /\ pagos[q].numero_cuota = pagos[payment_id].numero_cuota
        /\ pagos[q].estado_pago = APROBADO}

\* aprobar_pago run to completion
aprobar_pago(payment_id, admin_username) ==
    /\ payment_id \in PaymentIds
    /\ LET payment == payments[payment_id]
       IN  IF ~EstaPendiente(payment)
           THEN /\ last' = Err("aprobar_pago", payment_id, "InvalidState", 0)
                /\ UNCHANGED <<enrollments, payments>>
           ELSE IF existing_approved(payments, payment_id) # {}
           THEN /\ \E q \in existing_approved(payments, payment_id) :
                      last' = Err("aprobar_pago", payment_id, "Duplicate", q)
                /\ UNCHANGED <<enrollments, payments>>
           ELSE /\ payments' = [payments EXCEPT
                                  ![payment_id] = PagoAprobado(payment, admin_username)]
                /\ enrollments' = [enrollments EXCEPT
                                  ![payment.inscripcion_id] =
                                      SaldoActualizado(@, payment.cantidad_pago)]
                /\ last' = Ok("aprobar_pago", payment_id)
    /\ UNCHANGED <<inflight, courses>>

\* Faulty variant of the body validation: any motivo is accepted
PaymentRejectionValida_Siempre(motivo) == TRUE

\* schemas/payment.py PaymentRejection: motivo: str = Field(..., min_length=1)
PaymentRejectionValida(motivo) == motivo # None /\ Len(motivo) >= 1

\* PUT /payments/{id}/rechazar: the body is validated, then rechazar_pago of
\* the service runs to completion
rechazar_pago(payment_id, admin_username, motivo) ==
    /\ payment_id \in PaymentIds
    /\ LET payment == payments[payment_id]
       IN  IF ~PaymentRejectionValida(motivo)
           THEN /\ last' = Err("rechazar_pago", payment_id, "Validation", 0)
                /\ UNCHANGED payments
           ELSE IF ~EstaPendiente(payment)
           THEN /\ last' = Err("rechazar_pago", payment_id, "InvalidState", 0)
                /\ UNCHANGED payments
           ELSE /\ payments' = [payments EXCEPT
                                  ![payment_id] = PagoRechazado(payment, admin_username, motivo)]
                /\ last' = Ok("rechazar_pago", payment_id)
    /\ UNCHANGED <<enrollments, inflight, courses>>

----------------------------------------------------------------------------
\* aprobar_pago taken await by await.  A request in flight holds the
\* documents it loaded: payment is its copy of the Payment, enrollment the
\* copy of the Enrollment (<<>> until it is read), pc the await it is at.

Approval(pc, payment_id, payment, admin_username, enrollment) ==
    [ op |-> "aprobar_pago", pc |-> pc, payment_id |-> payment_id,
      payment |-> payment, admin_username |-> admin_username,
      enrollment |-> enrollment ]

\* request r is an approval suspended at the await pc
EnAwait(r, pc) ==
    /\ inflight[r] # Idle
    /\ "pc" \in DOMAIN inflight[r][1]
    /\ inflight[r][1].pc = pc

\* "payment = await Payment.get(payment_id)" and the state check on the copy
aprobar_pago_get(r, payment_id, admin_username) ==
    /\ payment_id \in PaymentIds
    /\ inflight[r] = Idle
    /\ IF ~EstaPendiente(payments[payment_id])
       THEN /\ last' = Err("aprobar_pago", payment_id, "InvalidState", 0)
            /\ UNCHANGED inflight
       ELSE /\ inflight' = [inflight EXCEPT ![r] =
                   <<Approval("find_one", payment_id, payments[payment_id],
                              admin_username, <<>>)>>]
            /\ last' = Suspended("aprobar_pago", payment_id)
    /\ UNCHANGED <<enrollments, payments, courses>>

\* Faulty variant of the duplicate query: an approval in flight for the same
\* obligation counts as an approved payment
aprobar_pago_find_one_ConEnVuelo(r) ==
    /\ EnAwait(r, "find_one")
    /\ LET req == inflight[r][1]
           otros == {q \in Requests \ {r} :
                       /\ \E pc \in {"find_one", "save", "get", "enrollment_save"} :
                              EnAwait(q, pc)
                       /\ inflight[q][1].payment.inscripcion_id = req.payment.inscripcion_id
                       /\ inflight[q][1].payment.concepto = req.payment.concepto
                       /\ inflight[q][1].payment.numero_cuota = req.payment.numero_cuota}
       IN  IF existing_approved(payments, req.payment_id) # {} \/ otros # {}
           THEN /\ last' = Err("aprobar_pago", req.payment_id, "Duplicate", 0)
                /\ inflight' = [inflight EXCEPT ![r] = Idle]
           ELSE /\ inflight' = [inflight EXCEPT ![r] = <<[req EXCEPT !.pc = "save"]>>]
                /\ last' = Suspended("aprobar_pago", req.payment_id)
    /\ UNCHANGED <<enrollments, payments, courses>>

\* "existing_approved = await Payment.find_one(...)" on the payments as they
\* are stored now
aprobar_pago_find_one(r) ==
    /\ EnAwait(r, "find_one")
    /\ LET req == inflight[r][1]
       IN  IF existing_approved(payments, req.payment_id) # {}
           THEN /\ \E q \in existing_approved(payments, req.payment_id) :
                      last' = Err("aprobar_pago", req.payment_id, "Duplicate", q)
                /\ inflight' = [inflight EXCEPT ![r] = Idle]
           ELSE /\ inflight' = [inflight EXCEPT ![r] = <<[req EXCEPT !.pc = "save"]>>]
                /\ last' = Suspended("aprobar_pago", req.payment_id)
    /\ UNCHANGED <<enrollments, payments, courses>>

\* "payment.aprobar_pago(admin_username); await payment.save()": the copy
\* is written over the stored document
aprobar_pago_save(r) ==
    /\ EnAwait(r, "save")
    /\ LET req == inflight[r][1]
       IN  /\ payments' = [payments EXCEPT ![req.payment_id] =
                              PagoAprobado(req.payment, req.admin_username)]
           /\ inflight' = [inflight EXCEPT ![r] = <<[req EXCEPT !.pc = "get"]>>]
           /\ last' = Suspended("aprobar_pago", req.payment_id)
    /\ UNCHANGED <<enrollments, courses>>

\* actualizar_saldo_enrollment: "enrollment = await Enrollment.get(...)"
actualizar_saldo_enrollment_get(r) ==
    /\ EnAwait(r, "get")
    /\ LET req == inflight[r][1]
       IN  /\ inflight' = [inflight EXCEPT ![r] =
                  <<[req EXCEPT !.pc = "enrollment_save",
                                !.enrollment = <<enrollments[req.payment.inscripcion_id]>>]>>]
           /\ last' = Suspended("aprobar_pago", req.payment_id)
    /\ UNCHANGED <<enrollments, payments, courses>>

\* Faulty variant of the ledger write: the amount is added to total_pagado
\* as it is stored at the write, not as it was read
actualizar_saldo_enrollment_save_Atomico(r) ==
    /\ EnAwait(r, "enrollment_save")
    /\ LET req == inflight[r][1]
       IN  /\ enrollments' = [enrollments EXCEPT ![req.payment.inscripcion_id] =
                                 SaldoActualizado(@, req.payment.cantidad_pago)]
           /\ inflight' = [inflight EXCEPT ![r] = Idle]
           /\ last' = Ok("aprobar_pago", req.payment_id)
    /\ UNCHANGED <<payments, courses>>

\* actualizar_saldo_enrollment: the ledger update on the copy that was read
\* and "await enrollment.save()", which writes the whole copy
actualizar_saldo_enrollment_save(r) ==
    /\ EnAwait(r, "enrollment_save")
    /\ LET req == inflight[r][1]
       IN  /\ enrollments' = [enrollments EXCEPT ![req.payment.inscripcion_id] =
                                 SaldoActualizado(req.enrollment[1],
                                                  req.payment.cantidad_pago)]
           /\ inflight' = [inflight EXCEPT ![r] = Idle]
           /\ last' = Ok("aprobar_pago", req.payment_id)
    /\ UNCHANGED <<payments, courses>>

----------------------------------------------------------------------------
\* Requisitos: the documents embedded in an Enrollment, addressed by index
\* (0-based in the API, so index i is position i + 1 of the sequence)

REQ_PENDIENTE == "pendiente"
REQ_EN_PROCESO == "en_proceso"
REQ_APROBADO == "aprobado"
REQ_RECHAZADO == "rechazado"

\* the indices sent: the two of the seeded list and one past its end
RequisitoIndices == {0, 1, 2}
Documentos == {"doc1.pdf", "doc2.pdf"}

\* the requirement labels of the course an enrollment is seeded from
RequirementLabels == <<"Carnet de identidad", "CV actualizado">>

\* a Requisito as it is created: PENDIENTE, with no document
NewRequisito(descripcion) ==
    [ descripcion |-> descripcion, url |-> None, estado |-> REQ_PENDIENTE,
      revisado_por |-> None, motivo_rechazo |-> None ]

\* Requisito.subir_documento
subir_documento(req, documento_url) ==
    [req EXCEPT !.url = documento_url, !.estado = REQ_EN_PROCESO,
                !.motivo_rechazo = None]

\* Requisito.aprobar
aprobar(req, admin_username) ==
    [req EXCEPT !.estado = REQ_APROBADO, !.revisado_por = admin_username,
                !.motivo_rechazo = None]

\* Requisito.rechazar
rechazar(req, admin_username, motivo) ==
    [req EXCEPT !.estado = REQ_RECHAZADO, !.revisado_por = admin_username,
                !.motivo_rechazo = motivo]

\* Faulty variant of the upload: a document is taken only for a requisito
\* that is PENDIENTE
subir_requisito_SoloPendiente(id, index, student_id, documento_url) ==
    LET enr == enrollments[id] IN
    /\ UNCHANGED <<payments, inflight, courses>>
    /\ IF enr.estudiante_id # student_id
       THEN /\ last' = Err("subir_requisito", id, "Ownership", 0)
            /\ UNCHANGED enrollments
       ELSE IF index >= Len(enr.requisitos)
       THEN /\ last' = Err("subir_requisito", id, "IndexOutOfRange", 0)
            /\ UNCHANGED enrollments
       ELSE IF enr.requisitos[index + 1].estado # REQ_PENDIENTE
       THEN /\ last' = Err("subir_requisito", id, "InvalidState", 0)
            /\ UNCHANGED enrollments
       ELSE /\ enrollments' = [enrollments EXCEPT ![id].requisitos[index + 1] =
                                  subir_documento(@, documento_url)]
            /\ last' = Ok("subir_requisito", id)

\* PUT /enrollments/{id}/requisitos/{index}
subir_requisito(id, index, student_id, documento_url) ==
    LET enr == enrollments[id] IN
    /\ UNCHANGED <<payments, inflight, courses>>
    /\ IF enr.estudiante_id # student_id
       THEN /\ last' = Err("subir_requisito", id, "Ownership", 0)
            /\ UNCHANGED enrollments
       ELSE IF index >= Len(enr.requisitos)
       THEN /\ last' = Err("subir_requisito", id, "IndexOutOfRange", 0)
            /\ UNCHANGED enrollments
       ELSE /\ enrollments' = [enrollments EXCEPT ![id].requisitos[index + 1] =
                                  subir_documento(@, documento_url)]
            /\ last' = Ok("subir_requisito", id)

\* Faulty variant of the approval: the state of the requisito is not looked at
aprobar_requisito_SinEstado(id, index, admin_username) ==
    LET enr == enrollments[id] IN
    /\ UNCHANGED <<payments, inflight, courses>>
    /\ IF index >= Len(enr.requisitos)
       THEN /\ last' = Err("aprobar_requisito", id, "IndexOutOfRange", 0)
            /\ UNCHANGED enrollments
       ELSE /\ enrollments' = [enrollments EXCEPT ![id].requisitos[index + 1] =
                                  aprobar(@, admin_username)]
            /\ last' = Ok("aprobar_requisito", id)

\* Faulty variant of the approval: every requisito of the list that has a
\* document is approved with the one addressed
aprobar_requisito_Todos(id, index, admin_username) ==
    LET enr == enrollments[id] IN
    /\ UNCHANGED <<payments, inflight, courses>>
    /\ IF index >= Len(enr.requisitos)
       THEN /\ last' = Err("aprobar_requisito", id, "IndexOutOfRange", 0)
            /\ UNCHANGED enrollments
       ELSE IF enr.requisitos[index + 1].url = None
       THEN /\ last' = Err("aprobar_requisito", id, "NoDocument", 0)
            /\ UNCHANGED enrollments
       ELSE IF enr.requisitos[index + 1].estado \notin {REQ_EN_PROCESO, REQ_RECHAZADO}
       THEN /\ last' = Err("aprobar_requisito", id, "InvalidState", 0)
            /\ UNCHANGED enrollments
       ELSE /\ enrollments' = [enrollments EXCEPT ![id].requisitos =
                   [j \in DOMAIN enr.requisitos |->
                       IF enr.requisitos[j].url # None
                       THEN aprobar(enr.requisitos[j], admin_username)
                       ELSE enr.requisitos[j]]]
            /\ last' = Ok("aprobar_requisito", id)

\* PUT /enrollments/{id}/requisitos/{index}/aprobar
aprobar_requisito(id, index, admin_username) ==
    LET enr == enrollments[id] IN
    /\ UNCHANGED <<payments, inflight, courses>>
    /\ IF index >= Len(enr.requisitos)
       THEN /\ last' = Err("aprobar_requisito", id, "IndexOutOfRange", 0)
            /\ UNCHANGED enrollments
       ELSE IF enr.requisitos[index + 1].url = None
       THEN /\ last' = Err("aprobar_requisito", id, "NoDocument", 0)
            /\ UNCHANGED enrollments
       ELSE IF enr.requisitos[index + 1].estado \notin {REQ_EN_PROCESO, REQ_RECHAZADO}
       THEN /\ last' = Err("aprobar_requisito", id, "InvalidState", 0)
            /\ UNCHANGED enrollments
       ELSE /\ enrollments' = [enrollments EXCEPT ![id].requisitos[index + 1] =
                                  aprobar(@, admin_username)]
            /\ last' = Ok("aprobar_requisito", id)

\* Faulty variant of the rejection: a RECHAZADO requisito is rejected again
rechazar_requisito_DesdeRechazado(id, index, admin_username, motivo) ==
    LET enr == enrollments[id] IN
    /\ UNCHANGED <<payments, inflight, courses>>
    /\ IF motivo = None \/ Len(motivo) < 1
       THEN /\ last' = Err("rechazar_requisito", id, "Validation", 0)
            /\ UNCHANGED enrollments
       ELSE IF index >= Len(enr.requisitos)
       THEN /\ last' = Err("rechazar_requisito", id, "IndexOutOfRange", 0)
            /\ UNCHANGED enrollments
       ELSE IF enr.requisitos[index + 1].url = None
       THEN /\ last' = Err("rechazar_requisito", id, "NoDocument", 0)
            /\ UNCHANGED enrollments
       ELSE IF enr.requisitos[index + 1].estado \notin {REQ_EN_PROCESO, REQ_RECHAZADO}
       THEN /\ last' = Err("rechazar_requisito", id, "InvalidState", 0)
            /\ UNCHANGED enrollments
       ELSE /\ enrollments' = [enrollments EXCEPT ![id].requisitos[index + 1] =
                                  rechazar(@, admin_username, motivo)]
            /\ last' = Ok("rechazar_requisito", id)

\* the body of a rejection, RequisitoRechazarRequest: the motivo is
\* mandatory and not empty
RequisitoRechazarRequestValida(motivo) == motivo # None /\ Len(motivo) >= 1

\* PUT /enrollments/{id}/requisitos/{index}/rechazar: the body is validated
\* before the handler runs
rechazar_requisito(id, index, admin_username, motivo) ==
    LET enr == enrollments[id] IN
    /\ UNCHANGED <<payments, inflight, courses>>
    /\ IF ~RequisitoRechazarRequestValida(motivo)
       THEN /\ last' = Err("rechazar_requisito", id, "Validation", 0)
            /\ UNCHANGED enrollments
       ELSE IF index >= Len(enr.requisitos)
       THEN /\ last' = Err("rechazar_requisito", id, "IndexOutOfRange", 0)
            /\ UNCHANGED enrollments
       ELSE IF enr.requisitos[index + 1].url = None
       THEN /\ last' = Err("rechazar_requisito", id, "NoDocument", 0)
            /\ UNCHANGED enrollments
       ELSE IF enr.requisitos[index + 1].estado # REQ_EN_PROCESO
       THEN /\ last' = Err("rechazar_requisito", id, "InvalidState", 0)
            /\ UNCHANGED enrollments
       ELSE /\ enrollments' = [enrollments EXCEPT ![id].requisitos[index + 1] =
                                  rechazar(@, admin_username, motivo)]
            /\ last' = Ok("rechazar_requisito", id)

----------------------------------------------------------------------------
\* The requisito endpoints taken await by await: the Enrollment is loaded
\* and checked, changed in memory, and "await enrollment.save()" writes the
\* whole document.  A request in flight holds the changed copy.

RequisitoRequest(op, id, enrollment) ==
    [ op |-> op, pc |-> "requisito_save", id |-> id, enrollment |-> enrollment ]

\* subir_requisito up to the save: Enrollment.get, the checks, the upload of
\* the file and subir_documento on the copy
subir_requisito_get(r, id, index, student_id, documento_url) ==
    LET enr == enrollments[id] IN
    /\ inflight[r] = Idle
    /\ UNCHANGED <<enrollments, payments, courses>>
    /\ IF enr.estudiante_id # student_id
       THEN /\ last' = Err("subir_requisito", id, "Ownership", 0)
            /\ UNCHANGED inflight
       ELSE IF index >= Len(enr.requisitos)
       THEN /\ last' = Err("subir_requisito", id, "IndexOutOfRange", 0)
            /\ UNCHANGED inflight
       ELSE /\ inflight' = [inflight EXCEPT ![r] =
                   <<RequisitoRequest("subir_requisito", id,
                        [enr EXCEPT !.requisitos[index + 1] =
                                        subir_documento(@, documento_url)])>>]
            /\ last' = Suspended("subir_requisito", id)

\* aprobar_requisito up to the save
aprobar_requisito_get(r, id, index, admin_username) ==
    LET enr == enrollments[id] IN
    /\ inflight[r] = Idle
    /\ UNCHANGED <<enrollments, payments, courses>>
    /\ IF index >= Len(enr.requisitos)
       THEN /\ last' = Err("aprobar_requisito", id, "IndexOutOfRange", 0)
            /\ UNCHANGED inflight
       ELSE IF enr.requisitos[index + 1].url = None
       THEN /\ last' = Err("aprobar_requisito", id, "NoDocument", 0)
            /\ UNCHANGED inflight
       ELSE IF enr.requisitos[index + 1].estado \notin {REQ_EN_PROCESO, REQ_RECHAZADO}
       THEN /\ last' = Err("aprobar_requisito", id, "InvalidState", 0)
            /\ UNCHANGED inflight
       ELSE /\ inflight' = [inflight EXCEPT ![r] =
                   <<RequisitoRequest("aprobar_requisito", id,
                        [enr EXCEPT !.requisitos[index + 1] =
                                        aprobar(@, admin_username)])>>]
            /\ last' = Suspended("aprobar_requisito", id)

\* rechazar_requisito up to the save
rechazar_requisito_get(r, id, index, admin_username, motivo) ==
    LET enr == enrollments[id] IN
    /\ inflight[r] = Idle
    /\ UNCHANGED <<enrollments, payments, courses>>
    /\ IF ~RequisitoRechazarRequestValida(motivo)
       THEN /\ last' = Err("rechazar_requisito", id, "Validation", 0)
            /\ UNCHANGED inflight
       ELSE IF index >= Len(enr.requisitos)
       THEN /\ last' = Err("rechazar_requisito", id, "IndexOutOfRange", 0)
            /\ UNCHANGED inflight
       ELSE IF enr.requisitos[index + 1].url = None
       THEN /\ last' = Err("rechazar_requisito", id, "NoDocument", 0)
            /\ UNCHANGED inflight
       ELSE IF enr.requisitos[index + 1].estado # REQ_EN_PROCESO
       THEN /\ last' = Err("rechazar_requisito", id, "InvalidState", 0)
            /\ UNCHANGED inflight
       ELSE /\ inflight' = [inflight EXCEPT ![r] =
                   <<RequisitoRequest("rechazar_requisito", id,
                        [enr EXCEPT !.requisitos[index + 1] =
                                        rechazar(@, admin_username, motivo)])>>]
            /\ last' = Suspended("rechazar_requisito", id)

\* "await enrollment.save()" of a requisito endpoint: the copy is written
\* over the stored document
requisito_save(r) ==
    /\ EnAwait(r, "requisito_save")
    /\ LET req == inflight[r][1]
       IN  /\ enrollments' = [enrollments EXCEPT ![req.id] = req.enrollment]
           /\ last' = Ok(req.op, req.id)
    /\ inflight' = [inflight EXCEPT ![r] = Idle]
    /\ UNCHANGED <<payments, courses>>

----------------------------------------------------------------------------
\* The system with every request run to completion

NoRequest == [op |-> "none", id |-> 0, ok |-> TRUE, error |-> "", ref |-> 0]

Init ==
    /\ enrollments = <<>>
    /\ payments = <<>>
    /\ inflight = [r \in Requests |-> Idle]
    /\ courses = <<>>
    /\ last = NoRequest

\* the PATCH bodies an admin sends: one field, or both
UpdateInputs ==
    {<<<<d>>, <<>>>> : d \in DescuentoValues}
        \cup {<<<<>>, <<st>>>> : st \in EstadoInscripcion}
        \cup {<<<<50>>, <<SUSPENDIDO>>>>}

\* One enrollment is followed: every query of the payment and ledger code
\* filters by inscripcion_id, so enrollments do not act on one another
AdminCreates ==
    \E s \in EnrollStudents, c \in LedgerCourses, d \in DescuentoValues :
        /\ enrollments = <<>>
        /\ create_enrollment(s, c, None, d)

AdminUpdates ==
    \E id \in EnrollmentIds, u \in UpdateInputs : update_enrollment(id, u[1], u[2])

StudentSubmits ==
    \E id \in EnrollmentIds, s \in Students, payment_in \in PaymentInputs :
        /\ Len(payments) < MaxPayments
        /\ create_payment(id, s, payment_in)

AdminApproves == \E p \in PaymentIds, a \in Admins : aprobar_pago(p, a)

AdminRejects ==
    \E p \in PaymentIds, a \in Admins, m \in Motivos : rechazar_pago(p, a, m)

StudentUploads ==
    \E id \in EnrollmentIds, i \in RequisitoIndices, s \in EnrollStudents,
       d \in Documentos :
        subir_requisito(id, i, s, d)

AdminApprovesRequisito ==
    \E id \in EnrollmentIds, i \in RequisitoIndices, a \in Admins :
        aprobar_requisito(id, i, a)

AdminRejectsRequisito ==
    \E id \in EnrollmentIds, i \in RequisitoIndices, a \in Admins :
        rechazar_requisito(id, i, a, "Documento ilegible")

Next ==
    \/ AdminCreates
    \/ AdminUpdates
    \/ StudentSubmits
    \/ AdminApproves
    \/ AdminRejects
    \/ StudentUploads
    \/ AdminApprovesRequisito
    \/ AdminRejectsRequisito

Spec == Init /\ [][Next]_vars

----------------------------------------------------------------------------
\* The system with create_payment requests that overlap: a request is
\* suspended at "await payment.insert()" while other requests run

StudentResolves ==
    \E r \in Requests, id \in EnrollmentIds, s \in Students,
       payment_in \in PaymentInputs :
        create_payment_resolve(r, id, s, payment_in)

StudentInserts ==
    \E r \in Requests :
        /\ Len(payments) < MaxPayments
        /\ create_payment_insert(r)

NextRace ==
    \/ AdminCreates
    \/ StudentResolves
    \/ StudentInserts
    \/ AdminApproves
    \/ AdminRejects

SpecRace == Init /\ [][NextRace]_vars

----------------------------------------------------------------------------
\* The submissions of an enrollment with three installments: every voucher
\* a student can send, approvals and rejections in any order

MaxSubmissions == 4

AdminCreatesInstallments ==
    \E s \in EnrollStudents, c \in InstallmentCourses :
        /\ enrollments = <<>>
        /\ create_enrollment(s, c, None, 0)

StudentSubmitsVoucher ==
    \E id \in EnrollmentIds, s \in EnrollStudents, payment_in \in VoucherInputs :
        /\ Len(payments) < MaxSubmissions
        /\ create_payment(id, s, payment_in)

NextSubmissions ==
    \/ AdminCreatesInstallments
    \/ StudentSubmitsVoucher
    \/ AdminApproves
    \/ AdminRejects

SpecSubmissions == Init /\ [][NextSubmissions]_vars

----------------------------------------------------------------------------
\* An enrollment paid to the end, with no discount edit and no manual state
\* change: submissions, approvals and rejections only

MaxPaidUpPayments == 5

AdminCreatesPaidUp ==
    \E s \in EnrollStudents, c \in PaidUpCourses :
        /\ enrollments = <<>>
        /\ create_enrollment(s, c, None, 0)

StudentSubmitsPaidUp ==
    \E id \in EnrollmentIds, s \in EnrollStudents, payment_in \in PaymentInputs :
        /\ Len(payments) < MaxPaidUpPayments
        /\ create_payment(id, s, payment_in)

NextPaidUp ==
    \/ AdminCreatesPaidUp
    \/ StudentSubmitsPaidUp
    \/ AdminApproves
    \/ AdminRejects

SpecPaidUp == Init /\ [][NextPaidUp]_vars

----------------------------------------------------------------------------
\* Enrollment creation with every combination of course-level and
\* student-level discount (references and literals), and state changes

AdminCreatesPricing ==
    \E s \in EnrollStudents, c \in PricingCourses, id \in DiscountRefs,
       d \in LiteralValues :
        /\ enrollments = <<>>
        /\ create_enrollment(s, c, id, d)

AdminChangesState ==
    \E id \in EnrollmentIds, st \in EstadoInscripcion :
        update_enrollment(id, <<>>, <<st>>)

NextPricing ==
    \/ AdminCreatesPricing
    \/ AdminChangesState

SpecPricing == Init /\ [][NextPricing]_vars

----------------------------------------------------------------------------
\* Several enrollments of the same students in the same courses: creation
\* and admin state changes, with no payment

\* enrollments created in one behaviour
MaxEnrollments == 3

\* the courses enrolled in
PairCourses == {"c1", "c7"}

AdminCreatesPair ==
    \E s \in Students, c \in PairCourses :
        /\ Len(enrollments) < MaxEnrollments
        /\ create_enrollment(s, c, None, 0)

NextPairs ==
    \/ AdminCreatesPair
    \/ AdminChangesState

SpecPairs == Init /\ [][NextPairs]_vars

----------------------------------------------------------------------------
\* A course edited before and after a student enrolls in it, with the
\* payments of the enrollment

\* payments created in one behaviour
MaxCataloguePayments == 3

\* the course that is edited
CatalogueCourses == {"c3"}

\* the bodies of a course update: one pricing field, or all of them
CourseUpdates ==
    { [costo_total |-> 2400], [matricula |-> 400], [cantidad_cuotas |-> 2],
      [descuento_curso |-> 50],
      [costo_total |-> 2400, matricula |-> 400, cantidad_cuotas |-> 2,
       descuento_curso |-> 50] }

AdminCreatesCatalogue ==
    \E s \in EnrollStudents, c \in CatalogueCourses :
        /\ enrollments = <<>>
        /\ create_enrollment(s, c, None, 0)

AdminUpdatesCourse ==
    \E c \in CatalogueCourses, course_in \in CourseUpdates :
        update_course(c, course_in)

StudentSubmitsCatalogue ==
    \E id \in EnrollmentIds, s \in EnrollStudents, payment_in \in PaymentInputs :
        /\ Len(payments) < MaxCataloguePayments
        /\ create_payment(id, s, payment_in)

NextCatalogue ==
    \/ AdminCreatesCatalogue
    \/ AdminUpdatesCourse
    \/ StudentSubmitsCatalogue
    \/ AdminApproves
    \/ AdminRejects

SpecCatalogue == Init /\ [][NextCatalogue]_vars

----------------------------------------------------------------------------
\* Approvals that overlap: two requests, each taken await by await, on the
\* payments of one enrollment with a Matricula and one installment;
\* submissions overlap as well, which is how two PENDIENTE payments of one
\* obligation come to exist

\* payments created in one behaviour
MaxRacePayments == 2

\* the course enrolled in
RaceCourses == {"c1"}

AdminCreatesRace ==
    \E s \in EnrollStudents, c \in RaceCourses :
        /\ enrollments = <<>>
        /\ create_enrollment(s, c, None, 0)

StudentResolvesRace ==
    \E r \in Requests, id \in EnrollmentIds, s \in EnrollStudents,
       payment_in \in PaymentInputs :
        create_payment_resolve(r, id, s, payment_in)

StudentInsertsRace ==
    \E r \in Requests :
        /\ Len(payments) < MaxRacePayments
        /\ inflight[r] # Idle /\ "pc" \notin DOMAIN inflight[r][1]
        /\ create_payment_insert(r)

AdminStartsApproval ==
    \E r \in Requests, p \in PaymentIds, a \in Admins : aprobar_pago_get(r, p, a)

AdminChecksDuplicate == \E r \in Requests : aprobar_pago_find_one(r)

AdminSavesPayment == \E r \in Requests : aprobar_pago_save(r)

AdminLoadsEnrollment == \E r \in Requests : actualizar_saldo_enrollment_get(r)

AdminSavesEnrollment == \E r \in Requests : actualizar_saldo_enrollment_save(r)

NextApprovals ==
    \/ AdminCreatesRace
    \/ StudentResolvesRace
    \/ StudentInsertsRace
    \/ AdminStartsApproval
    \/ AdminChecksDuplicate
    \/ AdminSavesPayment
    \/ AdminLoadsEnrollment
    \/ AdminSavesEnrollment

SpecApprovals == Init /\ [][NextApprovals]_vars

----------------------------------------------------------------------------
\* Submissions, approvals, rejections and discount edits, with no manual
\* state change

AdminEditsDiscount ==
    \E id \in EnrollmentIds, d \in DescuentoValues :
        update_enrollment(id, <<d>>, <<>>)

NextEdits ==
    \/ AdminCreates
    \/ AdminEditsDiscount
    \/ StudentSubmits
    \/ AdminApproves
    \/ AdminRejects

SpecEdits == Init /\ [][NextEdits]_vars

----------------------------------------------------------------------------
\* Enrollments created and edited with every literal discount, a full one
\* included, and the submissions that follow

\* a course with a down payment and one without
AmountCourses == {"c1", "c6"}

AdminCreatesAmounts ==
    \E s \in EnrollStudents, c \in AmountCourses, d \in LiteralValues :
        /\ enrollments = <<>>
        /\ create_enrollment(s, c, None, d)

AdminEditsAmounts ==
    \E id \in EnrollmentIds, d \in LiteralValues :
        update_enrollment(id, <<d>>, <<>>)

NextAmounts ==
    \/ AdminCreatesAmounts
    \/ AdminEditsAmounts
    \/ StudentSubmits

SpecAmounts == Init /\ [][NextAmounts]_vars

----------------------------------------------------------------------------
\* The requisitos of one stored enrollment.  create_enrollment fills no
\* requisitos, so the enrollment document is given with the list the course's
\* requirement labels seed: one PENDIENTE Requisito per label, in order

EnrollmentConRequisitos ==
    [NewEnrollment("s1", "c1", Courses["c1"], DescuentoResuelto(None, 0),
                   DescuentoResuelto(None, 0), Courses["c1"].costo_total)
        EXCEPT !.requisitos = [i \in 1..Len(RequirementLabels) |->
                                  NewRequisito(RequirementLabels[i])]]

InitRequisitos ==
    /\ enrollments = <<EnrollmentConRequisitos>>
    /\ payments = <<>>
    /\ inflight = [r \in Requests |-> Idle]
    /\ courses = <<>>
    /\ last = NoRequest

\* the motivo of a requisito rejection: missing, empty or given
MotivosRequisito == {None, "", "Documento ilegible"}

AdminRejectsConMotivo ==
    \E id \in EnrollmentIds, i \in RequisitoIndices, a \in Admins,
       m \in MotivosRequisito :
        rechazar_requisito(id, i, a, m)

NextRequisitos ==
    \/ StudentUploads
    \/ AdminApprovesRequisito
    \/ AdminRejectsConMotivo

SpecRequisitos == InitRequisitos /\ [][NextRequisitos]_vars

----------------------------------------------------------------------------
\* Requisito requests and payment approvals that overlap on the stored
\* enrollment with requisitos, each taken await by await

\* payments created in one behaviour
MaxOverlapPayments == 2

\* the index the requisito requests address
OverlapIndices == {0}

StudentSubmitsOverlap ==
    \E id \in EnrollmentIds, s \in EnrollStudents, payment_in \in PaymentInputs :
        /\ Len(payments) < MaxOverlapPayments
        /\ create_payment(id, s, payment_in)

StudentLoadsForUpload ==
    \E r \in Requests, id \in EnrollmentIds, i \in OverlapIndices,
       s \in EnrollStudents, d \in Documentos :
        subir_requisito_get(r, id, i, s, d)

AdminLoadsForApproval ==
    \E r \in Requests, id \in EnrollmentIds, i \in OverlapIndices, a \in Admins :
        aprobar_requisito_get(r, id, i, a)

AdminLoadsForRejection ==
    \E r \in Requests, id \in EnrollmentIds, i \in OverlapIndices, a \in Admins :
        rechazar_requisito_get(r, id, i, a, "Documento ilegible")

RequestSavesRequisito == \E r \in Requests : requisito_save(r)

NextOverlap ==
    \/ StudentSubmitsOverlap
    \/ StudentLoadsForUpload
    \/ AdminLoadsForApproval
    \/ AdminLoadsForRejection
    \/ RequestSavesRequisito
    \/ AdminStartsApproval
    \/ AdminChecksDuplicate
    \/ AdminSavesPayment
    \/ AdminLoadsEnrollment
    \/ AdminSavesEnrollment

SpecOverlap == InitRequisitos /\ [][NextOverlap]_vars

----------------------------------------------------------------------------
\* Properties

\* the (concepto, numero_cuota) obligation a payment is for
Obligacion(pago) == <<pago.inscripcion_id, pago.concepto, pago.numero_cuota>>

Activo(pago) == pago.estado_pago \in {PENDIENTE, APROBADO}

RECURSIVE SumaAprobados(_, _, _)
\* sum of cantidad_pago over the APROBADO payments 1..n of enrollment e
SumaAprobados(pagos, e, n) ==
    IF n = 0 THEN 0
    ELSE SumaAprobados(pagos, e, n - 1)
           + (IF pagos[n].inscripcion_id = e /\ pagos[n].estado_pago = APROBADO
              THEN pagos[n].cantidad_pago ELSE 0)

Aprobados(e) ==
    {p \in PaymentIds : payments[p].inscripcion_id = e
                          /\ payments[p].estado_pago = APROBADO}

\* C1: in every reachable state saldo_pendiente of every enrollment is
\* max(0, total_a_pagar - total_pagado) within a tolerance of 0.01
C1_SaldoDentroDeTolerancia ==
    \A e \in EnrollmentIds :
        Abs(enrollments[e].saldo_pendiente
              - Max(0, enrollments[e].total_a_pagar - enrollments[e].total_pagado))
            <= Cents(1)

\* C1 witness: a discount edit made after an approved payment left the
\* saldo a whole cent away from total_a_pagar - total_pagado
C1_Witness ==
    \E e \in EnrollmentIds :
        /\ last = Ok("update_enrollment", e)
        /\ enrollments[e].total_pagado > 0
        /\ Abs(enrollments[e].saldo_pendiente
                 - Max(0, enrollments[e].total_a_pagar - enrollments[e].total_pagado))
             = Cents(1)

\* C2: with every request run to completion, no obligation (enrollment,
\* concepto, numero_cuota) has two payments in PENDIENTE or APROBADO
C2_UnPagoActivoPorObligacion ==
    \A p, q \in PaymentIds :
        (p # q /\ Obligacion(payments[p]) = Obligacion(payments[q]))
            => ~(Activo(payments[p]) /\ Activo(payments[q]))

\* C2 witness: an obligation was submitted three times, the first two
\* payments rejected and the third active
C2_Witness ==
    /\ Len(payments) = 3
    /\ Obligacion(payments[1]) = Obligacion(payments[2])
    /\ Obligacion(payments[2]) = Obligacion(payments[3])
    /\ payments[1].estado_pago = RECHAZADO
    /\ payments[2].estado_pago = RECHAZADO
    /\ Activo(payments[3])

\* the APROBADO payments other than p for the obligation of p
OtrosAprobados(p) ==
    {q \in PaymentIds \ {p} :
        /\ Obligacion(payments[q]) = Obligacion(payments[p])
        /\ payments[q].estado_pago = APROBADO}

\* C3 (step): an approve call on a PENDIENTE payment succeeds when no other
\* payment of its obligation is APROBADO, also when another one is PENDIENTE;
\* otherwise it fails with an error naming an APROBADO payment of the
\* obligation and changes neither the payments nor the enrollment
C3_Paso ==
    \A p \in PaymentIds :
        (last'.op = "aprobar_pago" /\ last'.id = p
           /\ payments[p].estado_pago = PENDIENTE)
        => IF OtrosAprobados(p) = {}
           THEN /\ last'.ok
                /\ payments'[p].estado_pago = APROBADO
           ELSE /\ ~last'.ok
                /\ last'.error = "Duplicate"
                /\ last'.ref \in OtrosAprobados(p)
                /\ payments' = payments
                /\ enrollments' = enrollments

\* C3 (state): no obligation has two APROBADO payments
C3_SinDobleAprobado ==
    \A p, q \in PaymentIds :
        (p # q /\ Obligacion(payments[p]) = Obligacion(payments[q]))
            => ~(payments[p].estado_pago = APROBADO /\ payments[q].estado_pago = APROBADO)

\* C3: of two PENDIENTE payments of one obligation approved one after the
\* other, the first approval succeeds and the second fails naming the first,
\* stays PENDIENTE and leaves the ledger as it was
C3_SegundaAprobacionFalla == [][C3_Paso]_vars /\ []C3_SinDobleAprobado

\* C3 witness: the second approval of a doubly submitted obligation failed
C3_Witness ==
    \E p, q \in PaymentIds :
        /\ last = Err("aprobar_pago", p, "Duplicate", q)
        /\ Obligacion(payments[p]) = Obligacion(payments[q])
        /\ payments[p].estado_pago = PENDIENTE
        /\ payments[q].estado_pago = APROBADO
        /\ enrollments[payments[p].inscripcion_id].total_pagado
             = payments[q].cantidad_pago

\* C4 (step): an approve call on a payment that is APROBADO or RECHAZADO
\* fails and changes neither the payments nor the enrollments
C4_Paso ==
    \A p \in PaymentIds :
        (last'.op = "aprobar_pago" /\ last'.id = p
           /\ payments[p].estado_pago # PENDIENTE)
        => /\ ~last'.ok
           /\ last'.error = "InvalidState"
           /\ payments' = payments
           /\ enrollments' = enrollments

\* C4: approving a payment that is not PENDIENTE fails and leaves the
\* payment, its audit fields and the ledger of its enrollment unchanged
C4_AprobarNoPendienteFalla == [][C4_Paso]_vars

\* C4 witness: an approve call on a RECHAZADO payment has failed
C4_Witness ==
    \E p \in PaymentIds :
        /\ last = Err("aprobar_pago", p, "InvalidState", 0)
        /\ payments[p].estado_pago = RECHAZADO
        /\ payments[p].verificado_por # None

\* C5: total_pagado of an enrollment is the sum of cantidad_pago over its
\* APROBADO payments
C5_TotalPagadoEsSuma ==
    \A e \in EnrollmentIds :
        enrollments[e].total_pagado = SumaAprobados(payments, e, Len(payments))

\* C5 witness: two payments are approved, with a discount edit between the
\* submissions (the two amounts come from different totals)
C5_Witness ==
    \E e \in EnrollmentIds :
        /\ Cardinality(Aprobados(e)) >= 2
        /\ \E p, q \in Aprobados(e) :
              payments[p].cantidad_pago # payments[q].cantidad_pago
        /\ enrollments[e].total_pagado > 0

\* C6 (step): total_pagado never decreases, and it changes only in a
\* successful approve call, by the amount of the payment approved
C6_Paso ==
    \A e \in EnrollmentIds :
        /\ enrollments'[e].total_pagado >= enrollments[e].total_pagado
        /\ enrollments'[e].total_pagado # enrollments[e].total_pagado
             => /\ last'.op = "aprobar_pago" /\ last'.ok
                /\ last'.id \in PaymentIds
                /\ payments[last'.id].inscripcion_id = e
                /\ payments[last'.id].estado_pago = PENDIENTE
                /\ payments'[last'.id].estado_pago = APROBADO
                /\ enrollments'[e].total_pagado
                     = enrollments[e].total_pagado + payments[last'.id].cantidad_pago

Obligaciones(enr) ==
    (IF enr.costo_matricula > 0 THEN {<<Matricula, 0>>} ELSE {})
        \cup {<<Cuota(i), i>> : i \in 1..enr.cantidad_cuotas}

\* the obligations of enrollment e that no PENDIENTE or APROBADO payment of
\* the list pagos is for
Libres(enr, pagos, e) ==
    {o \in Obligaciones(enr) :
        ~\E p \in DOMAIN pagos :
            /\ pagos[p].inscripcion_id = e
            /\ Activo(pagos[p])
            /\ <<pagos[p].concepto, pagos[p].numero_cuota>> = o}

\* what the enrollment owes for an obligation
MontoAdeudado(enr, concepto) ==
    IF concepto = Matricula THEN enr.costo_matricula
    ELSE (enr.total_a_pagar - enr.costo_matricula) \div enr.cantidad_cuotas

\* C7: the resolver returns the Matricula when it is charged and uncovered,
\* otherwise the uncovered installment of lowest index, and nothing only
\* when every obligation is covered
C7_ResolverMenorLibre ==
    \A e \in EnrollmentIds :
        LET enr == enrollments[e]
            libres == Libres(enr, payments, e)
            r == get_next_pending_payment(enr, payments, e)
        IN  /\ (r = NoPayment) <=> (libres = {})
            /\ <<Matricula, 0>> \in libres
                 => (r.concepto = Matricula /\ r.numero_cuota = 0)
            /\ (libres # {} /\ <<Matricula, 0>> \notin libres)
                 => /\ <<r.concepto, r.numero_cuota>> \in libres
                    /\ r.numero_cuota >= 1
                    /\ \A o \in libres : r.numero_cuota <= o[2]

\* C7 witness: installments 1 and 3 are covered, installment 2 was rejected,
\* and the submission that followed was given installment 2
C7_Witness ==
    \E a, b, c, d \in PaymentIds :
        /\ payments[a].numero_cuota = 1 /\ Activo(payments[a])
        /\ payments[b].numero_cuota = 2 /\ payments[b].estado_pago = RECHAZADO
        /\ payments[c].numero_cuota = 3 /\ Activo(payments[c])
        /\ c < d
        /\ payments[d].concepto = Cuota(2) /\ payments[d].numero_cuota = 2
        /\ payments[d].estado_pago = PENDIENTE
        /\ last = Ok("create_payment", d)

\* C8 (step): a RECHAZADO payment is never changed; right after a rejection
\* the obligation of the rejected payment is uncovered and the resolver has
\* an obligation to hand out; a submission is refused for lack of obligations
\* only when every obligation has an active payment; the payment a
\* submission creates is PENDIENTE; and a PENDIENTE payment whose obligation
\* has only RECHAZADO payments besides it is approved when approval is asked
C8_Paso ==
    /\ \A p \in PaymentIds :
          payments[p].estado_pago = RECHAZADO => payments'[p] = payments[p]
    /\ \A p \in PaymentIds :
          (last'.op = "rechazar_pago" /\ last'.ok /\ last'.id = p)
          => LET e == payments[p].inscripcion_id IN
             /\ payments[p].estado_pago = PENDIENTE
             /\ payments'[p].estado_pago = RECHAZADO
             /\ <<payments[p].concepto, payments[p].numero_cuota>>
                    \in Libres(enrollments'[e], payments', e)
             /\ get_next_pending_payment(enrollments'[e], payments', e) # NoPayment
    /\ \A e \in EnrollmentIds :
          (last'.op = "create_payment" /\ last'.id = e /\ last'.error = "NoObligation")
          => Libres(enrollments[e], payments, e) = {}
    /\ (last'.op = "create_payment" /\ last'.ok)
          => /\ Len(payments') = Len(payments) + 1
             /\ payments'[Len(payments')].estado_pago = PENDIENTE
    /\ \A q \in PaymentIds :
          (last'.op = "aprobar_pago" /\ last'.id = q
             /\ payments[q].estado_pago = PENDIENTE
             /\ \A p \in PaymentIds \ {q} :
                   Obligacion(payments[p]) = Obligacion(payments[q])
                       => payments[p].estado_pago = RECHAZADO)
          => /\ last'.ok
             /\ payments'[q].estado_pago = APROBADO

\* C8: a rejection frees the obligation: a new PENDIENTE payment can be
\* created for it and approved, and the rejected record stays RECHAZADO
C8_RechazoLiberaObligacion == [][C8_Paso]_vars

\* C8 witness: a payment was rejected, a later payment for the same
\* obligation was created and has just been approved
C8_Witness ==
    \E p, q \in PaymentIds :
        /\ p < q
        /\ Obligacion(payments[p]) = Obligacion(payments[q])
        /\ payments[p].estado_pago = RECHAZADO
        /\ payments[p].motivo_rechazo = "Voucher ilegible"
        /\ payments[q].estado_pago = APROBADO
        /\ last = Ok("aprobar_pago", q)

\* C9: every PENDIENTE or APROBADO payment has the cantidad_pago its
\* enrollment owes now for the obligation: costo_matricula for the Matricula,
\* (total_a_pagar - costo_matricula) / cantidad_cuotas for an installment
C9_MontoIgualAdeudo ==
    \A p \in PaymentIds :
        Activo(payments[p])
            => payments[p].cantidad_pago
                 = MontoAdeudado(enrollments[payments[p].inscripcion_id],
                                 payments[p].concepto)

\* C10 (step): the payment a submission creates has the first uncovered
\* obligation of the enrollment and the amount owed for it, whatever the
\* student sent
C10_Paso ==
    (last'.op = "create_payment" /\ last'.ok /\ Len(payments') = Len(payments) + 1)
    => LET nuevo == payments'[Len(payments')]
           e == nuevo.inscripcion_id
           r == get_next_pending_payment(enrollments[e], payments, e)
       IN  /\ <<nuevo.concepto, nuevo.numero_cuota>>
                  \in Libres(enrollments[e], payments, e)
           /\ nuevo.concepto = r.concepto
           /\ nuevo.numero_cuota = r.numero_cuota
           /\ nuevo.cantidad_pago = MontoAdeudado(enrollments[e], nuevo.concepto)

\* C10: concepto, numero_cuota and cantidad_pago of a created payment are
\* determined by the state of the system alone, so two submissions from one
\* state with different student data create the same three values
C10_EntradaNoInfluye == [][C10_Paso]_vars

\* C10 witness: two vouchers with different declared data were submitted for
\* one obligation and got the same concepto and amount, not the declared ones
C10_Witness ==
    \E j, k \in PaymentIds :
        /\ j < k
        /\ Obligacion(payments[j]) = Obligacion(payments[k])
        /\ payments[j].cantidad_pago = payments[k].cantidad_pago
        /\ payments[j].numero_transaccion = "BNB-1"
        /\ payments[k].numero_transaccion = "BNB-2"
        /\ payments[k].concepto # "Cuota 2"
        /\ payments[k].cantidad_pago # Cents(5)
        /\ last = Ok("create_payment", k)

\* C11 (step): a successful approval leaves the enrollment COMPLETADO when
\* the new saldo_pendiente is at most one cent, whatever the state was;
\* otherwise ACTIVO when it was PENDIENTE_PAGO; otherwise in the state it had
C11_Paso ==
    \A p \in PaymentIds :
        (last'.op = "aprobar_pago" /\ last'.ok /\ last'.id = p)
        => LET e == payments[p].inscripcion_id
               antes == enrollments[e].estado
           IN  enrollments'[e].estado =
                   IF enrollments'[e].saldo_pendiente <= Cents(1) THEN COMPLETADO
                   ELSE IF antes = PENDIENTE_PAGO THEN ACTIVO
                   ELSE antes

ObligacionesAprobadas(e) ==
    {o \in Obligaciones(enrollments[e]) :
        \E p \in Aprobados(e) : <<payments[p].concepto, payments[p].numero_cuota>> = o}

\* C12: with down payment 200 and 4 installments of 200 on a total of 1000,
\* and no discount edit or manual state change, the enrollment is
\* PENDIENTE_PAGO until a payment is approved, ACTIVO while an obligation is
\* unapproved (so after the Matricula is approved), and COMPLETADO with
\* saldo_pendiente 0 once the Matricula and the 4 installments are approved
C12_EscenarioPagoCompleto ==
    \A e \in EnrollmentIds :
        LET enr == enrollments[e]
            aprobadas == ObligacionesAprobadas(e)
        IN  /\ enr.total_a_pagar = Cents(1000)
            /\ \A p \in PaymentIds :
                  payments[p].inscripcion_id = e => payments[p].cantidad_pago = Cents(200)
            /\ enr.saldo_pendiente = Cents(1000) - Cents(200) * Cardinality(aprobadas)
            /\ enr.estado =
                  IF aprobadas = {} THEN PENDIENTE_PAGO
                  ELSE IF aprobadas = Obligaciones(enr) THEN COMPLETADO
                  ELSE ACTIVO
            /\ enr.estado = COMPLETADO => enr.saldo_pendiente = 0

\* C12 witness: the Matricula and the four installments are approved, the
\* last approval having just run
C12_Witness ==
    \E e \in EnrollmentIds :
        /\ Cardinality(ObligacionesAprobadas(e)) = 5
        /\ <<Matricula, 0>> \in ObligacionesAprobadas(e)
        /\ enrollments[e].estado = COMPLETADO
        /\ enrollments[e].saldo_pendiente = 0
        /\ last.op = "aprobar_pago" /\ last.ok

\* C13 (step): a reject call either fails and changes no payment and no
\* enrollment, or stores a reason that is neither missing nor empty
C13_Paso ==
    \A p \in PaymentIds :
        (last'.op = "rechazar_pago" /\ last'.id = p)
        => \/ /\ ~last'.ok
              /\ payments' = payments
              /\ enrollments' = enrollments
           \/ /\ last'.ok
              /\ payments'[p].estado_pago = RECHAZADO
              /\ payments'[p].motivo_rechazo \notin {None, ""}

\* C13 (state): every RECHAZADO payment carries a reason
C13_RechazadoConMotivo ==
    \A p \in PaymentIds :
        payments[p].estado_pago = RECHAZADO
            => payments[p].motivo_rechazo \notin {None, ""}

\* C13: a rejection with an empty or missing reason fails before any change,
\* so that no payment is RECHAZADO without a reason
C13_RechazoSinMotivoFalla == [][C13_Paso]_vars /\ []C13_RechazadoConMotivo

\* C13 witness: a rejection body without a valid motivo was refused and the
\* payment is still PENDIENTE with no reviewer and no reason
C13_Witness ==
    \E p \in PaymentIds :
        /\ last = Err("rechazar_pago", p, "Validation", 0)
        /\ payments[p].estado_pago = PENDIENTE
        /\ payments[p].verificado_por = None
        /\ payments[p].motivo_rechazo = None

\* C14: total_a_pagar set at creation is a whole number of cents nearest to
\* costo_total * (1 - course_pct/100) * (1 - student_pct/100), the student
\* discount acting on the price already reduced by the course discount
C14_DescuentoEnCascada ==
    \A e \in EnrollmentIds :
        LET enr == enrollments[e]
            exacto == enr.costo_total * (100 - enr.descuento_curso_aplicado)
                          * (100 - enr.descuento_personalizado)
        IN  /\ enr.total_a_pagar % Scale = 0
            /\ 2 * Abs(enr.total_a_pagar * 100 * 100 - exacto) <= Cents(1) * 100 * 100
            /\ enr.saldo_pendiente = enr.total_a_pagar

\* C14 witness: base 3000 with course discount 10 and student discount 5 was
\* enrolled at 2565
C14_Witness ==
    \E e \in EnrollmentIds :
        /\ enrollments[e].costo_total = Cents(3000)
        /\ enrollments[e].descuento_curso_aplicado = 10
        /\ enrollments[e].descuento_personalizado = 5
        /\ enrollments[e].total_a_pagar = Cents(2565)
        /\ last = Ok("create_enrollment", e)

\* C16: at the course level, a referenced Discount that is found and active
\* gives its percentage, and a reference that is missing or inactive gives
\* the literal percentage of the course
C16_ReferenciaFallidaUsaLiteral ==
    \A e \in EnrollmentIds :
        LET course == CourseGet(enrollments[e].curso_id)
            discount_obj == DiscountGet(course.descuento_id)
        IN  course.descuento_id # None
            => enrollments[e].descuento_curso_aplicado =
                  IF discount_obj # <<>> /\ discount_obj[1].activo
                  THEN discount_obj[1].porcentaje
                  ELSE course.descuento_curso

\* C17: at the course level, a referenced Discount that is active with a
\* validity window not containing the day of the enrollment is not applied:
\* the percentage is the literal of the course
C17_FueraDeVigenciaNoAplica ==
    \A e \in EnrollmentIds :
        LET course == CourseGet(enrollments[e].curso_id)
            discount_obj == DiscountGet(course.descuento_id)
        IN  (/\ course.descuento_id # None
             /\ discount_obj # <<>>
             /\ discount_obj[1].activo
             /\ ~es_valido_en_fecha(discount_obj[1], Hoy))
            => /\ enrollments[e].descuento_curso_aplicado = course.descuento_curso
               /\ enrollments[e].descuento_curso_aplicado # discount_obj[1].porcentaje

\* costo_total * (100 - course pct) * (100 - student pct): the discounted
\* total of an enrollment in ten-thousandths of a unit
TotalExacto(enr) ==
    enr.costo_total * (100 - enr.descuento_curso_aplicado)
        * (100 - enr.descuento_personalizado)

\* x units is y ten-thousandths of a unit rounded to a whole cent
EsRedondeo(x, y) ==
    /\ x % Scale = 0
    /\ 2 * Abs(x * 100 * 100 - y) <= Cents(1) * 100 * 100

\* a PATCH that edited the discount shows in one of these fields
DescuentoEditado(e) ==
    \/ enrollments'[e].descuento_personalizado # enrollments[e].descuento_personalizado
    \/ enrollments'[e].total_a_pagar # enrollments[e].total_a_pagar
    \/ enrollments'[e].saldo_pendiente # enrollments[e].saldo_pendiente

\* C15 (step): a PATCH of an enrollment leaves total_pagado, costo_total,
\* costo_matricula, cantidad_cuotas and the course discount snapshot as they
\* were; when it edits the discount to p, total_a_pagar is
\* costo_total * (1 - course/100) * (1 - p/100) rounded to the cent and
\* saldo_pendiente is max(0, that product - total_pagado) rounded to the cent
C15_Paso ==
    \A e \in EnrollmentIds :
        (last'.op = "update_enrollment" /\ last'.id = e)
        => LET antes == enrollments[e]
               enr == enrollments'[e]
           IN  /\ enr.total_pagado = antes.total_pagado
               /\ enr.costo_total = antes.costo_total
               /\ enr.costo_matricula = antes.costo_matricula
               /\ enr.cantidad_cuotas = antes.cantidad_cuotas
               /\ enr.descuento_curso_aplicado = antes.descuento_curso_aplicado
               /\ enr.descuento_curso_id = antes.descuento_curso_id
               /\ DescuentoEditado(e)
                    => /\ EsRedondeo(enr.total_a_pagar, TotalExacto(enr))
                       /\ EsRedondeo(enr.saldo_pendiente,
                             Max(0, TotalExacto(enr) - antes.total_pagado * 100 * 100))

\* C15 (amended): a discount edit recomputes total_a_pagar as the rounded
\* cascaded total and saldo_pendiente as the rounded max(0, unrounded total -
\* stored total_pagado); the other snapshot fields and total_pagado stay
C15_EdicionRecalcula == [][C15_Paso]_vars

\* C15 witness: the discount was edited to 50 on an enrollment that had paid
\* more than the new total, and the saldo is 0
C15_Witness ==
    \E e \in EnrollmentIds :
        /\ last = Ok("update_enrollment", e)
        /\ enrollments[e].descuento_personalizado = 50
        /\ enrollments[e].total_pagado > enrollments[e].total_a_pagar
        /\ enrollments[e].saldo_pendiente = 0

\* C15 (step, as stated): after a discount edit saldo_pendiente is exactly
\* max(0, total_a_pagar - total_pagado) for the new, rounded total_a_pagar
C15_PasoExacto ==
    \A e \in EnrollmentIds :
        (last'.op = "update_enrollment" /\ last'.id = e /\ DescuentoEditado(e))
        => enrollments'[e].saldo_pendiente
             = Max(0, enrollments'[e].total_a_pagar - enrollments[e].total_pagado)

\* C15 as stated: the saldo of a discount edit is the rounded total minus
\* total_pagado, with no rounding of its own
C15_SaldoDelTotalRedondeado == [][C15_PasoExacto]_vars

----------------------------------------------------------------------------
\* the enrollments of a (student, course) pair that are not cancelled
NoCancelados(s, c) ==
    {e \in EnrollmentIds : /\ enrollments[e].estudiante_id = s
                           /\ enrollments[e].curso_id = c
                           /\ enrollments[e].estado # CANCELADO}

\* C18: in every state reached by create_enrollment calls and admin state
\* changes, a change of a cancelled enrollment back to another state
\* included, each (student, course) pair has at most one enrollment whose
\* state is not CANCELADO.
C18_UnaInscripcionPorPar ==
    \A s \in Students, c \in CourseIds : Cardinality(NoCancelados(s, c)) <= 1

----------------------------------------------------------------------------
\* the pricing snapshot of enrollment e differs from its course as it is now
\* in the price, the down payment, the installment count and the discount
CursoCambiado(e) ==
    LET enr == enrollments[e]
        course == CourseGet(enr.curso_id)
    IN  /\ enr.costo_total # Cents(course.costo_total)
        /\ enr.costo_matricula # Cents(course.matricula)
        /\ enr.cantidad_cuotas # course.cantidad_cuotas
        /\ enr.descuento_curso_aplicado # course.descuento_curso

\* C19 (step): a course update changes no enrollment, and a payment created
\* for an enrollment is an obligation of its snapshot with the amount the
\* snapshot owes
C19_Paso ==
    /\ last'.op = "update_course" => enrollments' = enrollments
    /\ (last'.op = "create_payment" /\ last'.ok)
         => /\ Len(payments') = Len(payments) + 1
            /\ enrollments' = enrollments
            /\ LET pago == payments'[Len(payments')]
                   enr == enrollments[pago.inscripcion_id]
               IN  /\ <<pago.concepto, pago.numero_cuota>> \in Obligaciones(enr)
                   /\ pago.cantidad_pago = MontoAdeudado(enr, pago.concepto)

\* C19: changing the price, down payment, installment count or discount of
\* a Course after an Enrollment was created leaves every field of the
\* Enrollment unchanged, and the obligations resolved afterwards have the
\* amounts of the Enrollment snapshot.
C19_SnapshotNoCambia == [][C19_Paso]_vars

\* C19 witness: the course was changed in all four pricing fields after the
\* enrollment, and the payment just created is the first installment of the
\* snapshot: a third of 1200 less 300 cents
C19_Witness ==
    /\ last.op = "create_payment" /\ last.ok
    /\ last.id \in PaymentIds
    /\ LET pago == payments[last.id]
       IN  /\ CursoCambiado(pago.inscripcion_id)
           /\ pago.concepto = Cuota(1)
           /\ pago.cantidad_pago = Cents(300)
           /\ enrollments[pago.inscripcion_id].total_a_pagar = Cents(1200)

----------------------------------------------------------------------------
\* the indices of the requisitos list of enrollment e, as the API counts them
IndicesValidos(e) == {i \in RequisitoIndices : i < Len(enrollments[e].requisitos)}

\* C20 (step), for the requisito at a valid index i of enrollment e:
\* an upload by the owner of a PENDIENTE or RECHAZADO requisito succeeds and
\* leaves it EN_PROCESO with the document and no reason; a rejection with a
\* reason of an EN_PROCESO requisito succeeds and leaves it RECHAZADO with
\* the reason; an approval of an EN_PROCESO requisito succeeds and leaves it
\* APROBADO with no reason and the reviewer
C20_Paso ==
    \A e \in EnrollmentIds : \A i \in IndicesValidos(e) :
        LET antes == enrollments[e].requisitos[i + 1]
            despues == enrollments'[e].requisitos[i + 1]
        IN  /\ \A d \in Documentos :
                  ( /\ antes.estado \in {REQ_PENDIENTE, REQ_RECHAZADO}
                    /\ subir_requisito(e, i, enrollments[e].estudiante_id, d) )
                  => /\ last' = Ok("subir_requisito", e)
                     /\ despues.estado = REQ_EN_PROCESO
                     /\ despues.url = d
                     /\ despues.motivo_rechazo = None
            /\ \A a \in Admins :
                  ( /\ antes.estado = REQ_EN_PROCESO
                    /\ rechazar_requisito(e, i, a, "Documento ilegible") )
                  => /\ last' = Ok("rechazar_requisito", e)
                     /\ despues.estado = REQ_RECHAZADO
                     /\ despues.motivo_rechazo = "Documento ilegible"
                     /\ despues.url = antes.url
            /\ \A a \in Admins :
                  ( /\ antes.estado = REQ_EN_PROCESO
                    /\ aprobar_requisito(e, i, a) )
                  => /\ last' = Ok("aprobar_requisito", e)
                     /\ despues.estado = REQ_APROBADO
                     /\ despues.motivo_rechazo = None
                     /\ despues.revisado_por = a
                     /\ despues.url = antes.url

----------------------------------------------------------------------------
\* the changes of estado a step makes in the requisitos, as <<from, to>>
CambiosDeEstado ==
    {<<enrollments[e].requisitos[i + 1].estado,
       enrollments'[e].requisitos[i + 1].estado>> :
        <<e, i>> \in {x \in EnrollmentIds \X RequisitoIndices :
                         /\ x[2] \in IndicesValidos(x[1])
                         /\ enrollments'[x[1]].requisitos[x[2] + 1].estado
                              # enrollments[x[1]].requisitos[x[2] + 1].estado}}

\* the four edges of the requisito state diagram
AristasDeclaradas ==
    { <<REQ_PENDIENTE, REQ_EN_PROCESO>>, <<REQ_EN_PROCESO, REQ_APROBADO>>,
      <<REQ_EN_PROCESO, REQ_RECHAZADO>>, <<REQ_RECHAZADO, REQ_EN_PROCESO>> }

\* the edges the endpoints take: the four, the approval of a rejected
\* requisito and the upload over an approved one
AristasPosibles ==
    AristasDeclaradas \cup { <<REQ_RECHAZADO, REQ_APROBADO>>,
                             <<REQ_APROBADO, REQ_EN_PROCESO>> }

----------------------------------------------------------------------------
\* the requisitos of enrollment e other than the one at index i are as before
OtrosRequisitosIguales(e, i) ==
    /\ Len(enrollments'[e].requisitos) = Len(enrollments[e].requisitos)
    /\ \A j \in DOMAIN enrollments[e].requisitos :
          j # i + 1 => enrollments'[e].requisitos[j] = enrollments[e].requisitos[j]

\* C22 (step): an approval of the requisito at index i of enrollment e
C22_Paso ==
    \A e \in EnrollmentIds, i \in RequisitoIndices, a \in Admins :
        aprobar_requisito(e, i, a)
        => LET reqs == enrollments[e].requisitos
           IN  IF \/ i >= Len(reqs)
                  \/ reqs[i + 1].url = None
                  \/ reqs[i + 1].estado \notin {REQ_EN_PROCESO, REQ_RECHAZADO}
               THEN /\ ~last'.ok
                    /\ enrollments' = enrollments
               ELSE /\ last' = Ok("aprobar_requisito", e)
                    /\ enrollments'[e].requisitos[i + 1] =
                          [reqs[i + 1] EXCEPT !.estado = REQ_APROBADO,
                                              !.revisado_por = a,
                                              !.motivo_rechazo = None]
                    /\ OtrosRequisitosIguales(e, i)

C23_Paso ==
    \A e \in EnrollmentIds, i \in RequisitoIndices, a \in Admins,
       m \in MotivosRequisito :
        rechazar_requisito(e, i, a, m)
        => LET reqs == enrollments[e].requisitos
           IN  IF \/ i >= Len(reqs)
                  \/ reqs[i + 1].url = None
                  \/ reqs[i + 1].estado # REQ_EN_PROCESO
                  \/ m \in {None, ""}
               THEN /\ ~last'.ok
                    /\ enrollments' = enrollments
               ELSE /\ last' = Ok("rechazar_requisito", e)
                    /\ enrollments'[e].requisitos[i + 1] =
                          [reqs[i + 1] EXCEPT !.estado = REQ_RECHAZADO,
                                              !.revisado_por = a,
                                              !.motivo_rechazo = m]
                    /\ OtrosRequisitosIguales(e, i)

----------------------------------------------------------------------------
\* no request is suspended at an await
TodoTerminado == \A r \in Requests : inflight[r] = Idle

\* C24 (step): the duplicate check of an approval passes exactly when no
\* other payment of the obligation is stored as APROBADO, whatever the other
\* request has read or checked and not yet written
C24_Paso ==
    \A r \in Requests :
        (EnAwait(r, "find_one") /\ aprobar_pago_find_one(r))
        => LET req == inflight[r][1]
               pasa == inflight'[r] # Idle /\ inflight'[r][1].pc = "save"
           IN  /\ pasa <=> existing_approved(payments, req.payment_id) = {}
               /\ ~pasa => inflight'[r] = Idle /\ ~last'.ok
               /\ payments' = payments /\ enrollments' = enrollments

\* C24: with approve taken as its separate steps, two approve calls on two
\* different PENDIENTE payments of the same obligation that interleave can
\* both pass the duplicate check, which looks only at the payments stored
\* as APROBADO at that moment; both payments end APROBADO and both amounts
\* are added to total_pagado.
C24_AmbosPasanElControl == [][C24_Paso]_vars

\* C24 witness: two payments of the same obligation are APROBADO, no request
\* is in flight and total_pagado is the sum of the two amounts
C24_Witness ==
    /\ TodoTerminado
    /\ last.op = "aprobar_pago" /\ last.ok
    /\ \E p, q \in PaymentIds :
          /\ p < q
          /\ Obligacion(payments[p]) = Obligacion(payments[q])
          /\ payments[p].estado_pago = APROBADO
          /\ payments[q].estado_pago = APROBADO
          /\ enrollments[payments[p].inscripcion_id].total_pagado
                = payments[p].cantidad_pago + payments[q].cantidad_pago

----------------------------------------------------------------------------
\* C25 (step): the ledger write of an approval stores the total_pagado the
\* request read plus its amount, and the saldo of that sum, whatever was
\* stored in between
C25_Paso ==
    \A r \in Requests :
        (EnAwait(r, "enrollment_save") /\ actualizar_saldo_enrollment_save(r))
        => LET req == inflight[r][1]
               leido == req.enrollment[1]
               escrito == enrollments'[req.payment.inscripcion_id]
           IN  /\ escrito.total_pagado = leido.total_pagado + req.payment.cantidad_pago
               /\ escrito.saldo_pendiente
                    = Max(0, leido.total_a_pagar - escrito.total_pagado)
               /\ last' = Ok("aprobar_pago", req.payment_id)

\* C25: when two approvals of payments for different obligations of the
\* same enrollment interleave inside the ledger update, each reading the
\* enrollment, adding its amount in memory and saving it, one addition can
\* be lost: both payments are APROBADO and total_pagado is smaller than the
\* sum of their amounts.
C25_ActualizacionPerdida == [][C25_Paso]_vars

\* C25 witness: the Matricula and Cuota 1 are both APROBADO, no request is
\* in flight, and total_pagado is less than the sum of the two amounts
C25_Witness ==
    /\ TodoTerminado
    /\ last.op = "aprobar_pago" /\ last.ok
    /\ \E p, q \in PaymentIds :
          /\ payments[p].inscripcion_id = payments[q].inscripcion_id
          /\ payments[p].concepto = Matricula
          /\ payments[q].concepto = Cuota(1)
          /\ payments[p].estado_pago = APROBADO
          /\ payments[q].estado_pago = APROBADO
          /\ enrollments[payments[p].inscripcion_id].total_pagado
                < payments[p].cantidad_pago + payments[q].cantidad_pago
          /\ enrollments[payments[p].inscripcion_id].saldo_pendiente > 0

----------------------------------------------------------------------------
\* C26: in every state reached by submissions, approvals and rejections
\* alone, an enrollment with a down payment that is ACTIVO has an APROBADO
\* Matricula payment, whatever the order of the approvals.
C26_ActivoConMatriculaAprobada ==
    \A e \in EnrollmentIds :
        (enrollments[e].costo_matricula > 0 /\ enrollments[e].estado = ACTIVO)
        => \E p \in Aprobados(e) : payments[p].concepto = Matricula

----------------------------------------------------------------------------
\* C27: in every state reached by submissions, approvals, rejections and
\* discount edits, an enrollment whose Matricula (when charged) and every
\* installment 1..N have an APROBADO payment has saldo_pendiente <= 0.01 and
\* is COMPLETADO.
C27_TodoAprobadoEsCompletado ==
    \A e \in EnrollmentIds :
        ObligacionesAprobadas(e) = Obligaciones(enrollments[e])
        => /\ enrollments[e].saldo_pendiente <= Cents(1)
           /\ enrollments[e].estado = COMPLETADO

----------------------------------------------------------------------------
\* C28: for every enrollment that create_enrollment or a discount edit
\* produces, the obligation the resolver returns has an amount > 0, and no
\* submission fails on the rule that cantidad_pago is > 0.
C28_MontoPositivo ==
    /\ \A e \in EnrollmentIds :
          LET r == get_next_pending_payment(enrollments[e], payments, e)
          IN  r # NoPayment => r.monto_sugerido > 0
    /\ ~(last.op = "create_payment" /\ last.error = "Validation")

----------------------------------------------------------------------------
\* the PENDIENTE payments of enrollment e
Pendientes(e) ==
    {p \in PaymentIds : payments[p].inscripcion_id = e
                          /\ payments[p].estado_pago = PENDIENTE}

\* C29: in every reachable state in which an enrollment has a positive
\* balance and no PENDIENTE payment, the concept that siguiente_pago reports
\* from total_pagado is the obligation that get_next_pending_payment returns
\* from the payments.
C29_SiguientePagoCoincide ==
    \A e \in EnrollmentIds :
        (enrollments[e].saldo_pendiente > 0 /\ Pendientes(e) = {})
        => LET r == get_next_pending_payment(enrollments[e], payments, e)
               sp == siguiente_pago(enrollments[e])
           IN  /\ r # NoPayment
               /\ sp.concepto = r.concepto
               /\ sp.numero_cuota = r.numero_cuota

----------------------------------------------------------------------------
\* the ledger fields of enrollment e are the same before and after the step
LedgerIgual(e) ==
    /\ enrollments'[e].total_pagado = enrollments[e].total_pagado
    /\ enrollments'[e].saldo_pendiente = enrollments[e].saldo_pendiente
    /\ enrollments'[e].estado = enrollments[e].estado

\* a requisito request that saves leaves the ledger fields as stored, and
\* the enrollment save of an approval leaves the stored requisitos
C30_Paso ==
    \A r \in Requests :
        /\ (EnAwait(r, "requisito_save") /\ requisito_save(r))
           => LedgerIgual(inflight[r][1].id)
        /\ (EnAwait(r, "enrollment_save") /\ actualizar_saldo_enrollment_save(r))
           => LET e == inflight[r][1].payment.inscripcion_id
              IN  enrollments'[e].requisitos = enrollments[e].requisitos

============================================================================
